---- MODULE Spec2Model ----
(***************************************************************************)
(* minimal-think-mcp (src/index.js): the session store, the default        *)
(* session pointer and the request handlers registered on the MCP server,  *)
(* as a state machine.                                                     *)
(*                                                                         *)
(* Durable state is the session directory: one record per session and the  *)
(* default-pointer record.  A handler is an async function; it is split at *)
(* its awaits on file I/O, so that handlers of overlapping requests        *)
(* interleave exactly where the event loop lets them.  The effect of an    *)
(* awaited I/O call takes place in the step that resumes the handler.      *)
(***************************************************************************)
EXTENDS Integers, Sequences, FiniteSets, TLC

\* ---------------------------------------------------------------- bounds

\* Date.now() ranges over 0..MaxClock.
MaxClock == 1
\* Thoughts held in the session directory plus think requests in flight:
\* with one request at a time on a storage that never fails, and otherwise.
MaxThoughts == 2
MaxThoughtsHostile == 2
\* Requests that arrive in a behaviour in which requests overlap.
MaxOverlapRequests == 3
\* Storage I/O failures and backward clock steps injected in one behaviour.
MaxFaults == 1
\* Process restarts in one behaviour.
MaxRestarts == 1
\* Thoughts held in the session directory when only appends are issued.
MaxThoughtsBurst == 3
\* Days that go by in one behaviour.
MaxDay == 2
\* Thoughts in a list handed to buildReasoningChain.
MaxChain == 21
\* Thoughts that relate to the first thought of a session stored beforehand.
MaxRelated == 4
\* Thoughts of a session that is searched.
MaxSearched == 3

\* ------------------------------------------------------------ value sets

\* Request handler slots: requests that may be in flight at the same time.
Procs == {1, 2}

\* JavaScript null / undefined for identifier-valued and text-valued items.
Null == <<>>
\* JavaScript null / undefined for enumeration-valued items.
NoStr == "null"

\* Math.random().toString(36).substring(2, 7): the 5-character suffixes drawn
\* for session identifiers and for thought identifiers.
SessionSfx == {"k"}
ThoughtSfx == {"j", "k"}

Clock == 0 .. MaxClock

\* `session_${Date.now()}_${suffix}`
SessionIdOf(ms, r) == <<"session", ms, r>>
\* `thought_${Date.now()}_${suffix}`
ThoughtIdOf(ms, r) == <<"thought", ms, r>>

SessionIds == {SessionIdOf(ms, r) : ms \in Clock, r \in SessionSfx}
ThoughtIds == {ThoughtIdOf(ms, r) : ms \in Clock, r \in ThoughtSfx}

\* Text is a sequence of characters.
Reasonings == {<<"a">>, <<"b">>}
Modes == {"linear", "creative", "critical", "strategic", "empathetic"}
RelTypes == {"builds_on", "supports", "contradicts", "refines", "synthesizes"}

\* The (reasoning, mode, tags) parts of the think requests that are issued.
Payloads ==
  { [reasoning |-> <<"a">>, mode |-> NoStr, tags |-> Null],
    [reasoning |-> <<"b">>, mode |-> "critical", tags |-> << <<"t">> >>] }
\* The (relates_to, relationship_type) parts of the think requests that are
\* issued: neither, both, or one without the other.
RelationArgs ==
  {<<Null, NoStr>>, <<Null, "builds_on">>, <<ThoughtIdOf(0, "j"), NoStr>>}
    \cup (ThoughtIds \X {"builds_on", "contradicts"})

\* JavaScript truthiness of an optional identifier or text argument.
Given(v) == v # Null
\* JavaScript truthiness of an optional enumeration argument.
Chosen(v) == v # NoStr

\* ----------------------------------------------------------------- state

VARIABLES
  files,        \* session directory: session id -> [exists, thoughts]
  defaultFile,  \* defaultSession.json: a session id, or Null when absent
  clock,        \* Date.now()
  pc,           \* per slot: the await the handler is suspended at
  req,          \* per slot: the arguments of the request, as far as read
  loc,          \* per slot: the handler's local variables
  resp,         \* per slot: the result the handler returned
  slots,        \* number of requests the transport lets overlap
  faultsLeft,   \* environment faults still to be injected
  cap,          \* thoughts the session directory is let to hold
  nominal,      \* one request at a time and no environment faults
  arrivals,     \* requests still to arrive; -1 when they are not counted
  log,          \* history: per session, the appends acknowledged to callers
  flt,          \* history: per slot, what went wrong around the request
  restarts,     \* history: process restarts so far
  day,          \* the date: whole days on the wall clock
  mtimes        \* per session record: the time of its last write

vars == <<files, defaultFile, clock, pc, req, loc, resp, slots, faultsLeft, cap, nominal, arrivals, log, flt, restarts,
          day, mtimes>>

\* A time on the wall clock, and stats.mtime of a record that is absent.
TimeOf(d, ms) == [day |-> d, ms |-> ms]
NoMtime == TimeOf(0, 0)

\* The sessionId whose record path `${sessionId}.json` is the path of the
\* default-pointer record, defaultSession.json.
PointerName == <<"defaultSession">>

NoFile == [exists |-> FALSE, thoughts |-> <<>>]
FileOf(list) == [exists |-> TRUE, thoughts |-> list]

NoReq == [op |-> "none"]
NoLoc == [session |-> Null]
NoResp == [kind |-> "none"]
\* read: a load of an existing session record failed; ptr: a read of the
\* existing default pointer failed; write: a write failed; raced: 1 for the
\* first and 2 for the second writer of two requests that both loaded one
\* session before either wrote it; fresh: the first writer's thought id is
\* not in the list the second writer holds; ref: how the think's relates_to
\* stands to the list it loaded; self: relates_to is the new thought's id.
\* deleted: the records a sweep has unlinked; sweptDefault: one of them was
\* the session the default pointer named; asked: the search arguments of a
\* find_thought_relationships request.
NoFlt ==
  [ read |-> FALSE, ptr |-> FALSE, write |-> FALSE, raced |-> 0, fresh |-> FALSE,
    ref |-> "none", self |-> FALSE, deleted |-> 0, sweptDefault |-> FALSE,
    asked |-> Null ]

\* Outcomes of one I/O call: TRUE is success.  A failure uses up a fault.
IOOutcomes == IF faultsLeft > 0 THEN {TRUE, FALSE} ELSE {TRUE}
Spend(ok) == IF ok THEN faultsLeft ELSE faultsLeft - 1

\* ------------------------------------------------------ storage functions

\* A load that answers a missing record with a one-thought list.
loadSessionPhantom(f, sessionId, ok) ==
  IF ok /\ f[sessionId].exists THEN f[sessionId].thoughts
  ELSE << [ id |-> Null, content |-> <<>>, mode |-> "linear", tags |-> <<>>,
            timestamp |-> 0, relates_to |-> Null, relationship_type |-> NoStr,
            relationships_in |-> <<>>, relationships_out |-> <<>> ] >>

\* loadSession: readFile + JSON.parse; any error gives the empty array.
loadSession(f, sessionId, ok) ==
  IF ok /\ f[sessionId].exists THEN f[sessionId].thoughts ELSE <<>>

\* A save that returns before the record is written.
saveSessionUnwritten(f, sessionId, thoughts, ok) == f

\* A save that appends the new thought to the record as it is on disk.
saveSessionMerge(f, sessionId, thoughts, ok) ==
  IF ok THEN [f EXCEPT ![sessionId] = FileOf(@.thoughts \o <<thoughts[Len(thoughts)]>>)]
  ELSE f

\* saveSession: writeFile of the whole list; an error is logged and dropped.
saveSession(f, sessionId, thoughts, ok) ==
  IF ok THEN [f EXCEPT ![sessionId] = FileOf(thoughts)] ELSE f

\* A read of the default pointer that never finds one.
getDefaultSessionNone(d, ok) == Null

\* getDefaultSession: readFile + JSON.parse; any error gives null.
getDefaultSession(d, ok) == IF ok THEN d ELSE Null

\* `${sessionId}.json` is there in the session directory: the session record
\* of a session, the default-pointer record under its own name.
Accessible(f, d, sessionId) ==
  IF sessionId = PointerName THEN d # Null ELSE f[sessionId].exists

\* A write of the default pointer that does nothing.
setDefaultSessionDrop(d, sessionId, ok) == d

\* setDefaultSession: writeFile; an error is logged and dropped.
setDefaultSession(d, sessionId, ok) == IF ok THEN sessionId ELSE d

\* ----------------------------------------------------- think: pure parts

\* thoughts.find(t => t.id === id): index of the first match, 0 if none.
FindIndex(thoughts, id) ==
  IF \E i \in 1 .. Len(thoughts) : thoughts[i].id = id
  THEN CHOOSE i \in 1 .. Len(thoughts) :
         /\ thoughts[i].id = id
         /\ \A j \in 1 .. (i - 1) : thoughts[j].id # id
  ELSE 0

\* A thought built with its content cut to a preview.
NewThoughtPreviewed(thoughtId, reasoning, mode, tags, now) ==
  [ id |-> thoughtId,
    content |-> SubSeq(reasoning, 1, 0),
    mode |-> IF Chosen(mode) THEN mode ELSE "linear",
    tags |-> IF tags # Null THEN tags ELSE <<>>,
    timestamp |-> now,
    relates_to |-> Null,
    relationship_type |-> NoStr,
    relationships_in |-> <<>>,
    relationships_out |-> <<>> ]

\* thoughtObj as first built: no relationship recorded yet.
NewThought(thoughtId, reasoning, mode, tags, now) ==
  [ id |-> thoughtId,
    content |-> reasoning,
    mode |-> IF Chosen(mode) THEN mode ELSE "linear",
    tags |-> IF tags # Null THEN tags ELSE <<>>,
    timestamp |-> now,
    relates_to |-> Null,
    relationship_type |-> NoStr,
    relationships_in |-> <<>>,
    relationships_out |-> <<>> ]

\* Validations with one of the three checks left out.
ValidateNoSelfCheck(thoughts, thoughtId, now, relates_to, relationship_type) ==
  IF ~(Given(relates_to) /\ Chosen(relationship_type)) THEN "ok"
  ELSE IF FindIndex(thoughts, relates_to) = 0 THEN "Referenced thought not found"
  ELSE IF thoughts[FindIndex(thoughts, relates_to)].timestamp > now
    THEN "Cannot reference future thoughts"
  ELSE "ok"
ValidateNoFutureCheck(thoughts, thoughtId, now, relates_to, relationship_type) ==
  IF ~(Given(relates_to) /\ Chosen(relationship_type)) THEN "ok"
  ELSE IF relates_to = thoughtId THEN "Cannot reference self"
  ELSE IF FindIndex(thoughts, relates_to) = 0 THEN "Referenced thought not found"
  ELSE "ok"
ValidateNoLookup(thoughts, thoughtId, now, relates_to, relationship_type) ==
  IF ~(Given(relates_to) /\ Chosen(relationship_type)) THEN "ok"
  ELSE IF relates_to = thoughtId THEN "Cannot reference self"
  ELSE "ok"

\* The relationship validation (lines 179-193): "ok", or the error the
\* handler returns.
Validate(thoughts, thoughtId, now, relates_to, relationship_type) ==
  IF ~(Given(relates_to) /\ Chosen(relationship_type)) THEN "ok"
  ELSE IF relates_to = thoughtId THEN "Cannot reference self"
  ELSE IF FindIndex(thoughts, relates_to) = 0 THEN "Referenced thought not found"
  ELSE IF thoughts[FindIndex(thoughts, relates_to)].timestamp > now
    THEN "Cannot reference future thoughts"
  ELSE "ok"

\* A push that keeps a relates_to or relationship_type given alone.
PushThoughtHalf(thoughts, obj, relates_to, relationship_type) ==
  IF Given(relates_to) /\ Chosen(relationship_type) /\ FindIndex(thoughts, relates_to) # 0
  THEN LET i == FindIndex(thoughts, relates_to)
           linked == [thoughts EXCEPT ![i].relationships_in =
                        Append(@, [thought_id |-> obj.id,
                                   relationship_type |-> relationship_type])]
       IN Append(linked,
                 [obj EXCEPT !.relationships_out =
                               << [thought_id |-> relates_to,
                                   relationship_type |-> relationship_type] >>,
                             !.relates_to = relates_to,
                             !.relationship_type = relationship_type])
  ELSE Append(thoughts, [obj EXCEPT !.relates_to = relates_to,
                                    !.relationship_type = relationship_type])

\* A push that puts a new thought with a relationship at the head of the list.
PushThoughtAhead(thoughts, obj, relates_to, relationship_type) ==
  IF Given(relates_to) /\ Chosen(relationship_type) /\ FindIndex(thoughts, relates_to) # 0
  THEN << [obj EXCEPT !.relationships_out =
                        << [thought_id |-> relates_to,
                            relationship_type |-> relationship_type] >>,
                      !.relates_to = relates_to,
                      !.relationship_type = relationship_type] >> \o thoughts
  ELSE Append(thoughts, obj)

\* A push that puts the new thought in front.
PushThoughtFront(thoughts, obj, relates_to, relationship_type) == <<obj>> \o thoughts

\* The list after the relationship is recorded and the new thought pushed.
PushThought(thoughts, obj, relates_to, relationship_type) ==
  IF Given(relates_to) /\ Chosen(relationship_type) /\ FindIndex(thoughts, relates_to) # 0
  THEN LET i == FindIndex(thoughts, relates_to)
           linked == [thoughts EXCEPT ![i].relationships_in =
                        Append(@, [thought_id |-> obj.id,
                                   relationship_type |-> relationship_type])]
       IN Append(linked,
                 [obj EXCEPT !.relationships_out =
                               << [thought_id |-> relates_to,
                                   relationship_type |-> relationship_type] >>,
                             !.relates_to = relates_to,
                             !.relationship_type = relationship_type])
  ELSE Append(thoughts, obj)

\* ------------------------------------------------------------------ text

Ellipsis == <<".", ".", ".">>

\* String.prototype.substring(0, n)
substring(text, n) == SubSeq(text, 1, IF Len(text) < n THEN Len(text) ELSE n)

\* text.substring(0, n) + (text.length > n ? "..." : "")
Preview(text, n) == IF Len(text) > n THEN substring(text, n) \o Ellipsis ELSE text

LowerChar(c) ==
  CASE c = "A" -> "a" [] c = "B" -> "b" [] c = "T" -> "t" [] OTHER -> c
\* String.prototype.toLowerCase
toLowerCase(text) == [i \in 1 .. Len(text) |-> LowerChar(text[i])]

\* String.prototype.includes
includes(text, part) ==
  \E i \in 0 .. (Len(text) - Len(part)) : SubSeq(text, i + 1, i + Len(part)) = part

\* String.prototype.split(/\s+/)
RECURSIVE split(_)
split(text) ==
  IF \A i \in 1 .. Len(text) : text[i] # " " THEN <<text>>
  ELSE LET i == CHOOSE k \in 1 .. Len(text) :
                  text[k] = " " /\ \A m \in 1 .. (k - 1) : text[m] # " "
           j == CHOOSE k \in i .. Len(text) :
                  /\ \A m \in i .. k : text[m] = " "
                  /\ k = Len(text) \/ text[k + 1] # " "
       IN <<SubSeq(text, 1, i - 1)>> \o split(SubSeq(text, j + 1, Len(text)))

\* The characters of a thinking mode.
ModeText(mode) ==
  CASE mode = "linear" -> <<"l", "i", "n", "e", "a", "r">>
    [] mode = "creative" -> <<"c", "r", "e", "a", "t", "i", "v", "e">>
    [] mode = "critical" -> <<"c", "r", "i", "t", "i", "c", "a", "l">>
    [] mode = "strategic" -> <<"s", "t", "r", "a", "t", "e", "g", "i", "c">>
    [] mode = "empathetic" -> <<"e", "m", "p", "a", "t", "h", "e", "t", "i", "c">>

\* Array.prototype.filter
RECURSIVE SelectSeqBy(_, _)
SelectSeqBy(seq, keep) ==
  IF seq = <<>> THEN <<>>
  ELSE (IF keep[1] THEN <<Head(seq)>> ELSE <<>>) \o SelectSeqBy(Tail(seq), Tail(keep))

\* Array.prototype.slice(0, n)
slice(seq, n) == SubSeq(seq, 1, IF Len(seq) < n THEN Len(seq) ELSE n)

RECURSIVE SumSeq(_)
SumSeq(seq) == IF seq = <<>> THEN 0 ELSE Head(seq) + SumSeq(Tail(seq))

\* -------------------------------------------------------- reasoning chain

ChainWalkCap == 20
maxChainLength == 7
ChainPreviewLen == 120

ChainEntry(thought) ==
  [ id |-> thought.id,
    content_preview |-> Preview(thought.content, ChainPreviewLen),
    mode |-> thought.mode,
    timestamp |-> thought.timestamp,
    relationship_type |-> thought.relationship_type ]

\* A walk that follows relates_to whatever the relationship_type is.
RECURSIVE ChainWalkAnyType(_, _, _, _)
ChainWalkAnyType(currentId, visited, chain, thoughts) ==
  IF ~Given(currentId) \/ currentId \in visited \/ Len(chain) >= ChainWalkCap THEN chain
  ELSE LET i == FindIndex(thoughts, currentId)
       IN IF i = 0 THEN chain
          ELSE LET thought == thoughts[i]
                   longer == <<ChainEntry(thought)>> \o chain
               IN IF Given(thought.relates_to)
                  THEN ChainWalkAnyType(thought.relates_to, visited \cup {currentId}, longer,
                                        thoughts)
                  ELSE longer

\* A walk without the visited set.
RECURSIVE ChainWalkUnguarded(_, _, _, _)
ChainWalkUnguarded(currentId, visited, chain, thoughts) ==
  IF ~Given(currentId) \/ Len(chain) >= ChainWalkCap THEN chain
  ELSE LET i == FindIndex(thoughts, currentId)
       IN IF i = 0 THEN chain
          ELSE LET thought == thoughts[i]
                   longer == <<ChainEntry(thought)>> \o chain
               IN IF thought.relationship_type = "builds_on" /\ Given(thought.relates_to)
                  THEN ChainWalkUnguarded(thought.relates_to, visited, longer, thoughts)
                  ELSE longer

\* The while loop of buildReasoningChain.
RECURSIVE ChainWalk(_, _, _, _)
ChainWalk(currentId, visited, chain, thoughts) ==
  IF ~Given(currentId) \/ currentId \in visited \/ Len(chain) >= ChainWalkCap THEN chain
  ELSE LET i == FindIndex(thoughts, currentId)
       IN IF i = 0 THEN chain
          ELSE LET thought == thoughts[i]
                   longer == <<ChainEntry(thought)>> \o chain
               IN IF thought.relationship_type = "builds_on" /\ Given(thought.relates_to)
                  THEN ChainWalk(thought.relates_to, visited \cup {currentId}, longer, thoughts)
                  ELSE longer

\* A truncation that keeps the oldest entries, chain.slice(0, maxChainLength).
buildReasoningChainOldest(thoughtId, thoughts) ==
  LET chain == ChainWalk(thoughtId, {}, <<>>, thoughts)
  IN IF Len(chain) > maxChainLength
     THEN LET kept == SubSeq(chain, 1, maxChainLength)
          IN [ chain |-> [kept EXCEPT ![1] =
                            @ @@ [truncated |-> TRUE, note |-> Len(chain) - maxChainLength]],
               total_length |-> Len(chain),
               truncated |-> TRUE ]
     ELSE [chain |-> chain, total_length |-> Len(chain), truncated |-> FALSE]

\* buildReasoningChain
buildReasoningChain(thoughtId, thoughts) ==
  LET chain == ChainWalk(thoughtId, {}, <<>>, thoughts)
  IN IF Len(chain) > maxChainLength
     THEN LET kept == SubSeq(chain, Len(chain) - maxChainLength + 1, Len(chain))
          IN [ chain |-> [kept EXCEPT ![1] =
                            @ @@ [truncated |-> TRUE, note |-> Len(chain) - maxChainLength]],
               total_length |-> Len(chain),
               truncated |-> TRUE ]
     ELSE [chain |-> chain, total_length |-> Len(chain), truncated |-> FALSE]

\* ---------------------------------------------------------------- search

\* calculateRelevanceScore
calculateRelevanceScore(thought, queryLower) ==
  LET content == toLowerCase(thought.content)
      queryWords == split(queryLower)
  IN (IF includes(content, queryLower) THEN 10 ELSE 0)
     + SumSeq([i \in 1 .. Len(queryWords) |->
                 IF includes(content, queryWords[i]) THEN 2 ELSE 0])
     + SumSeq([i \in 1 .. Len(thought.tags) |->
                 IF includes(toLowerCase(thought.tags[i]), queryLower) THEN 5 ELSE 0])
     + (IF includes(toLowerCase(ModeText(thought.mode)), queryLower) THEN 3 ELSE 0)
     + (IF Given(thought.relates_to) \/ Chosen(thought.relationship_type) THEN 1 ELSE 0)

\* A filter that searches the content alone.
SearchKeepsContentOnly(t, queryLower, relationship_types, exclude_thought_id) ==
  /\ ~(Given(exclude_thought_id) /\ t.id = exclude_thought_id)
  /\ (relationship_types # Null /\ Len(relationship_types) > 0)
       => /\ Chosen(t.relationship_type)
          /\ \E i \in 1 .. Len(relationship_types) : relationship_types[i] = t.relationship_type
  /\ includes(toLowerCase(t.content), queryLower)

\* The filter of find_thought_relationships.
SearchKeeps(t, queryLower, relationship_types, exclude_thought_id) ==
  /\ ~(Given(exclude_thought_id) /\ t.id = exclude_thought_id)
  /\ (relationship_types # Null /\ Len(relationship_types) > 0)
       => /\ Chosen(t.relationship_type)
          /\ \E i \in 1 .. Len(relationship_types) : relationship_types[i] = t.relationship_type
  /\ \/ includes(toLowerCase(t.content), queryLower)
     \/ \E i \in 1 .. Len(t.tags) : includes(toLowerCase(t.tags[i]), queryLower)
     \/ includes(toLowerCase(ModeText(t.mode)), queryLower)

SearchPreviewLen == 150

SearchResult(t, queryLower) ==
  [ id |-> t.id,
    content_preview |-> Preview(t.content, SearchPreviewLen),
    mode |-> t.mode,
    tags |-> t.tags,
    timestamp |-> t.timestamp,
    relates_to |-> t.relates_to,
    relationship_type |-> t.relationship_type,
    relevance_score |-> calculateRelevanceScore(t, queryLower) ]

\* A sort that puts a result before the earlier results of the same score.
RECURSIVE SortByScoreTiesReversed(_)
SortByScoreTiesReversed(seq) ==
  IF Len(seq) <= 1 THEN seq
  ELSE LET x == seq[Len(seq)]
           before == SortByScoreTiesReversed(SubSeq(seq, 1, Len(seq) - 1))
           n == Cardinality({i \in 1 .. Len(before) :
                               before[i].relevance_score > x.relevance_score})
       IN SubSeq(before, 1, n) \o <<x>> \o SubSeq(before, n + 1, Len(before))

\* Array.prototype.sort((a, b) => b.relevance_score - a.relevance_score): stable.
RECURSIVE SortByScore(_)
SortByScore(seq) ==
  IF Len(seq) <= 1 THEN seq
  ELSE LET x == seq[Len(seq)]
           before == SortByScore(SubSeq(seq, 1, Len(seq) - 1))
           n == Cardinality({i \in 1 .. Len(before) :
                               before[i].relevance_score >= x.relevance_score})
       IN SubSeq(before, 1, n) \o <<x>> \o SubSeq(before, n + 1, Len(before))

\* The filter, map, sort and slice of find_thought_relationships.
SearchResults(thoughts, query, relationship_types, exclude_thought_id, limit) ==
  LET queryLower == toLowerCase(query)
      kept == SelectSeqBy(thoughts,
                [i \in 1 .. Len(thoughts) |->
                   SearchKeeps(thoughts[i], queryLower, relationship_types,
                               exclude_thought_id)])
  IN slice(SortByScore([i \in 1 .. Len(kept) |-> SearchResult(kept[i], queryLower)]), limit)

\* -------------------------------------------------------- think response

\* JSON null in a response field that otherwise holds an object.
NullRecord == [null |-> TRUE]

RelatedContentLen == 200
ContextPreviewLen == 80
ContextCap == 3
ChainPreviewCap == 5

\* The thoughts with an outgoing relationship of the given type to thoughtId.
RelatedBy(thoughts, thoughtId, relationship_type) ==
  SelectSeqBy(thoughts,
    [i \in 1 .. Len(thoughts) |->
       \E k \in 1 .. Len(thoughts[i].relationships_out) :
         /\ thoughts[i].relationships_out[k].thought_id = thoughtId
         /\ thoughts[i].relationships_out[k].relationship_type = relationship_type])

Linked(relates_to, relationship_type) == Given(relates_to) /\ Chosen(relationship_type)

\* related_context of the think response (lines 213-254).
RelatedContext(thoughts, relates_to, relationship_type) ==
  IF ~Linked(relates_to, relationship_type) \/ FindIndex(thoughts, relates_to) = 0
  THEN NullRecord
  ELSE IF relationship_type = "builds_on"
  THEN LET chain == buildReasoningChain(relates_to, thoughts)
           conflicts == slice(RelatedBy(thoughts, relates_to, "contradicts"), ContextCap)
           supports == slice(RelatedBy(thoughts, relates_to, "supports"), ContextCap)
           shown == slice(chain.chain, ChainPreviewCap)
       IN [ type |-> "builds_on_enhanced",
            chain_preview |-> [i \in 1 .. Len(shown) |-> shown[i].content_preview],
            conflicts |-> [i \in 1 .. Len(conflicts) |->
                             substring(conflicts[i].content, ContextPreviewLen) \o Ellipsis],
            supports |-> [i \in 1 .. Len(supports) |->
                            substring(supports[i].content, ContextPreviewLen) \o Ellipsis] ]
  ELSE LET related_thought == thoughts[FindIndex(thoughts, relates_to)]
       IN [ type |-> "related",
            relationship |-> relationship_type,
            related_thought_id |-> relates_to,
            related_content |-> substring(related_thought.content, RelatedContentLen)
                                  \o Ellipsis,
            related_mode |-> related_thought.mode ]

\* A reasoning_chain that starts from the thought just pushed.
ReasoningChainFromNew(thoughts, relates_to, relationship_type) ==
  IF Linked(relates_to, relationship_type) /\ FindIndex(thoughts, relates_to) # 0
     /\ relationship_type = "builds_on"
  THEN buildReasoningChain(thoughts[Len(thoughts)].id, thoughts)
  ELSE NullRecord

\* reasoning_chain of the think response (lines 213-254).
ReasoningChain(thoughts, relates_to, relationship_type) ==
  IF Linked(relates_to, relationship_type) /\ FindIndex(thoughts, relates_to) # 0
     /\ relationship_type = "builds_on"
  THEN buildReasoningChain(relates_to, thoughts)
  ELSE NullRecord

\* responseJson of a think that reached the end of the handler.
ThinkResponse(r, l, setAsDefault) ==
  [ kind |-> "think",
    thinking |-> r.reasoning,
    thoughtId |-> l.thoughtId,
    sessionId |-> l.session,
    mode |-> IF Chosen(r.mode) THEN r.mode ELSE "linear",
    tags |-> IF r.tags # Null THEN r.tags ELSE <<>>,
    thoughtCount |-> Len(l.thoughts),
    related_context |-> RelatedContext(l.thoughts, r.relates_to, r.relationship_type),
    reasoning_chain |-> ReasoningChain(l.thoughts, r.relates_to, r.relationship_type),
    usingDefaultSession |-> l.usedDefaultSession,
    isDefaultSession |-> setAsDefault \/ l.usedDefaultSession,
    isNewSession |-> l.isNewSession ]

ErrorResponse(msg) == [kind |-> "error", error |-> msg]

\* A handler without a catch ends in an exception.
ThrownFault(msg) == [kind |-> "thrown", error |-> msg]

\* ------------------------------------------------------------------ init

InitWith(n, k, c) ==
  /\ files = [s \in SessionIds |-> NoFile]
  /\ defaultFile = Null
  /\ clock = 0
  /\ pc = [p \in Procs |-> "idle"]
  /\ req = [p \in Procs |-> NoReq]
  /\ loc = [p \in Procs |-> NoLoc]
  /\ resp = [p \in Procs |-> NoResp]
  /\ slots = n
  /\ faultsLeft = k
  /\ cap = c
  /\ nominal = (n = 1 /\ k = 0)
  /\ arrivals = IF n = 1 THEN -1 ELSE MaxOverlapRequests
  /\ log = [s \in SessionIds |-> <<>>]
  /\ flt = [p \in Procs |-> NoFlt]
  /\ restarts = 0
  /\ day = 0
  /\ mtimes = [s \in SessionIds |-> NoMtime]

\* One request at a time, a storage that never fails, a clock that never steps back.
Init == InitWith(1, 0, MaxThoughts)
\* One request at a time, with I/O failures and backward clock steps.
InitEnv == InitWith(1, MaxFaults, MaxThoughtsHostile)
\* Two overlapping requests.
InitConc == InitWith(2, 0, MaxThoughtsHostile)
\* One request at a time, longer sessions.
InitBurst == InitWith(1, 0, MaxThoughtsBurst)
\* One request at a time, with I/O failures, over several days.
InitSweep == InitWith(1, MaxFaults, MaxThoughtsHostile)

\* One request at a time and a storage that never fails, for callers that
\* also pass the name of the default-pointer record as a sessionId.
InitNamed == InitWith(1, 0, MaxThoughts)

\* ----------------------------------------------------------- environment

\* Time passes; the wall clock may also be stepped back.
Tick ==
  /\ \E c \in Clock :
       /\ c = clock + 1 \/ (c < clock /\ faultsLeft > 0)
       /\ clock' = c
       /\ faultsLeft' = IF c < clock THEN faultsLeft - 1 ELSE faultsLeft
  /\ UNCHANGED <<files, defaultFile, pc, req, loc, resp, slots, cap, nominal, arrivals, log, flt, restarts, day, mtimes>>

\* ------------------------------------------------------- handler plumbing

RECURSIVE StoredIn(_)
StoredIn(S) ==
  IF S = {} THEN 0
  ELSE LET s == CHOOSE x \in S : TRUE
       IN Len(files[s].thoughts) + StoredIn(S \ {s})
InFlightThinks == Cardinality({p \in Procs : pc[p] # "idle" /\ req[p].op = "think"})

\* A request arrives and takes the lowest free slot.
Begin(p, r, at, l) ==
  /\ pc[p] = "idle"
  /\ p <= slots
  /\ \A q \in Procs : q < p => pc[q] # "idle"
  /\ arrivals # 0
  /\ arrivals' = IF arrivals > 0 THEN arrivals - 1 ELSE arrivals
  /\ pc' = [pc EXCEPT ![p] = at]
  /\ req' = [req EXCEPT ![p] = r]
  /\ loc' = [loc EXCEPT ![p] = l]

\* The handler returns its result; its arguments and locals are gone.
Return(p, result) ==
  /\ pc' = [pc EXCEPT ![p] = "done"]
  /\ resp' = [resp EXCEPT ![p] = result]
  /\ req' = [req EXCEPT ![p] = NoReq]
  /\ loc' = [loc EXCEPT ![p] = NoLoc]

\* The transport sends the result; the slot is free again.
Deliver(p) ==
  /\ pc[p] = "done"
  /\ pc' = [pc EXCEPT ![p] = "idle"]
  /\ resp' = [resp EXCEPT ![p] = NoResp]
  /\ flt' = [flt EXCEPT ![p] = NoFlt]
  /\ UNCHANGED <<files, defaultFile, clock, req, loc, slots, cap, nominal, arrivals, faultsLeft, log, restarts, day, mtimes>>

\* ----------------------------------------------------------------- think

\* The arguments of a think request are bound in the step that first reads
\* them and kept for as long as the handler reads them: the session
\* selection on arrival, the thought's parts when the thought is built,
\* setAsDefault after the session is saved.
ThinkSelections ==
  [op : {"think"}, sessionId : SessionIds \cup {Null},
   useDefaultSession : BOOLEAN, newChat : BOOLEAN]
\* Outside the nominal specification every request carries the first payload.
PayloadsIssued == IF nominal THEN Payloads ELSE {w \in Payloads : w.mode = NoStr}
ThinkThoughts ==
  { [op |-> "think", reasoning |-> w.reasoning, mode |-> w.mode, tags |-> w.tags,
     relates_to |-> rel[1], relationship_type |-> rel[2]] :
    w \in PayloadsIssued, rel \in RelationArgs }

\* Lines 137-159: ensureSessionDir, then the session is taken from the
\* arguments, or left to the default pointer, or generated.
ThinkStart(p) ==
  \E r \in ThinkSelections, x \in SessionSfx :
    LET session == IF r.newChat THEN Null ELSE r.sessionId
        l == [ session |-> IF session # Null THEN session ELSE SessionIdOf(clock, x),
               usedDefaultSession |-> FALSE,
               isNewSession |-> session = Null,
               thoughtId |-> Null,
               thoughts |-> <<>> ]
    IN /\ StoredIn(SessionIds) + InFlightThinks < cap
       /\ IF session = Null /\ r.useDefaultSession
          THEN Begin(p, r, "think_getDefault", [l EXCEPT !.session = Null])
          ELSE Begin(p, r, "think_load", l)
       /\ UNCHANGED <<files, defaultFile, clock, resp, slots, cap, nominal, faultsLeft, log, flt, restarts, day, mtimes>>

\* Lines 151-159: the default pointer is read; without one a session id is
\* generated.
ThinkGetDefault(p) ==
  /\ pc[p] = "think_getDefault"
  /\ \E ok \in IOOutcomes, x \in SessionSfx :
       LET session == getDefaultSession(defaultFile, ok)
       IN /\ loc' = [loc EXCEPT ![p].session =
                       IF session # Null THEN session ELSE SessionIdOf(clock, x),
                                ![p].usedDefaultSession = session # Null,
                                ![p].isNewSession = session = Null]
          /\ faultsLeft' = Spend(ok)
          /\ flt' = [flt EXCEPT ![p].ptr = @ \/ (~ok /\ defaultFile # Null)]
  /\ pc' = [pc EXCEPT ![p] = "think_load"]
  /\ UNCHANGED <<files, defaultFile, clock, req, resp, slots, cap, nominal, arrivals, log, restarts, day, mtimes>>

\* How a think's relates_to stands to the list it loaded.
RefClass(thoughts, session, relates_to, relationship_type) ==
  IF ~Linked(relates_to, relationship_type) THEN "none"
  ELSE IF FindIndex(thoughts, relates_to) # 0 THEN "found"
  ELSE IF \E s \in SessionIds \ {session} : FindIndex(files[s].thoughts, relates_to) # 0
  THEN "elsewhere"
  ELSE "absent"

\* Lines 162-205: the session is loaded, the thought is built and validated,
\* the relationship recorded, the thought pushed; saveSession is called.
ThinkLoad(p) ==
  /\ pc[p] = "think_load"
  /\ IF loc[p].session = PointerName
     THEN \* The default-pointer record is read as the session: it parses to
          \* an object, and thoughts.find or thoughts.push is no function.
          /\ \E ok \in IOOutcomes : ok /\ faultsLeft' = Spend(ok)
          /\ Return(p, ThrownFault("TypeError"))
          /\ UNCHANGED flt
     ELSE \E ok \in IOOutcomes, x \in ThoughtSfx, r \in ThinkThoughts :
            LET thoughts == loadSession(files, loc[p].session, ok)
                thoughtId == ThoughtIdOf(clock, x)
                obj == NewThought(thoughtId, r.reasoning, r.mode, r.tags, clock)
                v == Validate(thoughts, thoughtId, clock, r.relates_to, r.relationship_type)
            IN /\ faultsLeft' = Spend(ok)
               /\ flt' = [flt EXCEPT ![p].read = @ \/ (~ok /\ files[loc[p].session].exists),
                                      ![p].ref = RefClass(thoughts, loc[p].session, r.relates_to,
                                                          r.relationship_type),
                                      ![p].self = Linked(r.relates_to, r.relationship_type)
                                                  /\ r.relates_to = thoughtId]
               /\ IF v # "ok"
                  THEN Return(p, ErrorResponse(v))
                  ELSE /\ req' = [req EXCEPT ![p] = r]
                       /\ loc' = [loc EXCEPT ![p].thoughtId = thoughtId,
                                             ![p].thoughts =
                                               PushThought(thoughts, obj, r.relates_to,
                                                           r.relationship_type)]
                       /\ pc' = [pc EXCEPT ![p] = "think_save"]
                       /\ UNCHANGED resp
  /\ UNCHANGED <<files, defaultFile, clock, slots, cap, nominal, arrivals, log, restarts, day, mtimes>>

\* The acknowledgement of an append, as the caller sees it.
Ack(result) == [id |-> result.thoughtId, content |-> result.thinking]
\* The history after an acknowledged append; it is kept in the nominal
\* specification.
Logged(s, ack) == IF nominal THEN [log EXCEPT ![s] = Append(@, ack)] ELSE log

\* The slots whose request loaded session s and has still to write it.
Unsaved(s) == {q \in Procs : pc[q] = "think_save" /\ loc[q].session = s}

\* Lines 205-292: the list is written; then the default pointer if asked
\* for, else the response is built and returned.
ThinkSave(p) ==
  /\ pc[p] = "think_save"
  /\ \E ok \in IOOutcomes, d \in BOOLEAN :
       /\ files' = saveSession(files, loc[p].session, loc[p].thoughts, ok)
       /\ mtimes' = IF ok THEN [mtimes EXCEPT ![loc[p].session] = TimeOf(day, clock)]
                  ELSE mtimes
       /\ faultsLeft' = Spend(ok)
       /\ flt' = [q \in Procs |->
                    IF q = p
                    THEN [flt[q] EXCEPT !.write = @ \/ ~ok,
                            !.raced = IF Unsaved(loc[p].session) # {p} /\ @ = 0 THEN 1 ELSE @,
                            !.fresh = \A o \in Unsaved(loc[p].session) \ {p} :
                                        FindIndex(loc[o].thoughts, loc[p].thoughtId) = 0]
                    ELSE IF q \in Unsaved(loc[p].session)
                    THEN [flt[q] EXCEPT !.raced = 2]
                    ELSE flt[q]]
       /\ IF d
          THEN /\ pc' = [pc EXCEPT ![p] = "think_setDefault"]
               /\ UNCHANGED <<req, loc, resp, log>>
          ELSE /\ Return(p, ThinkResponse(req[p], loc[p], d))
               /\ log' = Logged(loc[p].session, Ack(resp'[p]))
  /\ UNCHANGED <<defaultFile, clock, slots, cap, nominal, arrivals, restarts, day>>

\* Lines 208-292: the default pointer is written; the response is built and
\* returned.
ThinkSetDefault(p) ==
  /\ pc[p] = "think_setDefault"
  /\ \E ok \in IOOutcomes :
       /\ defaultFile' = setDefaultSession(defaultFile, loc[p].session, ok)
       /\ faultsLeft' = Spend(ok)
       /\ flt' = [flt EXCEPT ![p].write = @ \/ ~ok]
  /\ Return(p, ThinkResponse(req[p], loc[p], TRUE))
  /\ log' = Logged(loc[p].session, Ack(resp'[p]))
  /\ UNCHANGED <<files, clock, slots, cap, nominal, arrivals, restarts, day, mtimes>>

\* ---------------------------------------------------------- view_session

ViewRequests == [op : {"view_session"}, sessionId : SessionIds \cup {Null}]

\* Lines 382-403: without a sessionId the default pointer is awaited.
ViewStart(p) ==
  \E r \in ViewRequests :
    /\ Begin(p, r, IF r.sessionId # Null THEN "view_load" ELSE "view_getDefault",
             [session |-> r.sessionId, usedDefaultSession |-> FALSE])
    /\ UNCHANGED <<files, defaultFile, clock, resp, slots, cap, nominal, faultsLeft, log, flt, restarts, day, mtimes>>

\* Lines 389-403: the default pointer is read; without one the handler returns.
ViewGetDefault(p) ==
  /\ pc[p] = "view_getDefault"
  /\ \E ok \in IOOutcomes :
       LET session == getDefaultSession(defaultFile, ok)
       IN /\ faultsLeft' = Spend(ok)
          /\ flt' = [flt EXCEPT ![p].ptr = @ \/ (~ok /\ defaultFile # Null)]
          /\ IF session = Null
             THEN Return(p, ErrorResponse("No session ID provided and no default session set"))
             ELSE /\ loc' = [loc EXCEPT ![p] = [session |-> session,
                                                usedDefaultSession |-> TRUE]]
                  /\ pc' = [pc EXCEPT ![p] = "view_load"]
                  /\ UNCHANGED <<req, resp>>
  /\ UNCHANGED <<files, defaultFile, clock, slots, cap, nominal, arrivals, log, restarts, day, mtimes>>

\* Lines 405-427: the session is loaded and returned.
ViewLoad(p) ==
  /\ pc[p] = "view_load"
  /\ \E ok \in IOOutcomes :
       LET thoughts == loadSession(files, loc[p].session, ok)
       IN /\ faultsLeft' = Spend(ok)
          /\ flt' = [flt EXCEPT ![p].read = @ \/ (~ok /\ files[loc[p].session].exists)]
          /\ Return(p, [ kind |-> "view_session",
                         sessionId |-> loc[p].session,
                         thoughts |-> thoughts,
                         count |-> Len(thoughts),
                         usingDefaultSession |-> loc[p].usedDefaultSession ])
  /\ UNCHANGED <<files, defaultFile, clock, slots, cap, nominal, arrivals, log, restarts, day, mtimes>>

\* -------------------------------------------------------- delete_session

DeleteRequests == [op : {"delete_session"}, sessionId : SessionIds]

\* Lines 453-456: unlink of the session record is awaited.
DeleteStart(p) ==
  \E r \in DeleteRequests :
    /\ Begin(p, r, "delete_unlink", [session |-> r.sessionId])
    /\ UNCHANGED <<files, defaultFile, clock, resp, slots, cap, nominal, faultsLeft, log,
                   flt, restarts, day, mtimes>>

\* delete_session called with the name of the default-pointer record.
DeleteStartNamed(p) ==
  /\ Begin(p, [op |-> "delete_session", sessionId |-> PointerName], "delete_unlink",
           [session |-> PointerName])
  /\ UNCHANGED <<files, defaultFile, clock, resp, slots, cap, nominal, faultsLeft, log,
                 flt, restarts, day, mtimes>>

\* fs.unlink of a session record: the directory afterwards.
unlinkSession(f, sessionId) == [f EXCEPT ![sessionId] = NoFile]

\* Lines 456-459, 480-491: the record is removed, or the failure is returned.
DeleteUnlink(p) ==
  /\ pc[p] = "delete_unlink"
  /\ \E ok \in IOOutcomes :
       LET s == loc[p].session
           there == Accessible(files, defaultFile, s)
       IN /\ faultsLeft' = Spend(ok)
          /\ flt' = [flt EXCEPT ![p].write = @ \/ (~ok /\ there)]
          /\ IF ok /\ there
             THEN /\ IF s = PointerName
                     THEN /\ defaultFile' = Null
                          /\ UNCHANGED <<files, log, mtimes>>
                     ELSE /\ files' = unlinkSession(files, s)
                          /\ mtimes' = [mtimes EXCEPT ![s] = NoMtime]
                          /\ log' = [log EXCEPT ![s] = <<>>]
                          /\ UNCHANGED defaultFile
                  /\ pc' = [pc EXCEPT ![p] = "delete_getDefault"]
                  /\ UNCHANGED <<req, loc, resp>>
             ELSE /\ Return(p, [kind |-> "error", error |-> "Failed to delete session"])
                  /\ UNCHANGED <<files, defaultFile, log, mtimes>>
  /\ UNCHANGED <<clock, slots, cap, nominal, arrivals, restarts, day>>

\* A result that never reports the default.
DeleteResponseNever(wasDefault) ==
  [kind |-> "delete_session", status |-> "success", wasDefault |-> FALSE]

DeleteResponse(wasDefault) == [kind |-> "delete_session", status |-> "success",
                               wasDefault |-> wasDefault]

\* Lines 459-479: the default pointer is read; if it names the deleted
\* session its record is unlinked next, else the handler returns.
DeleteGetDefault(p) ==
  /\ pc[p] = "delete_getDefault"
  /\ \E ok \in IOOutcomes :
       LET defaultSessionId == getDefaultSession(defaultFile, ok)
       IN /\ faultsLeft' = Spend(ok)
          /\ flt' = [flt EXCEPT ![p].ptr = @ \/ (~ok /\ defaultFile # Null)]
          /\ IF defaultSessionId = loc[p].session
             THEN /\ pc' = [pc EXCEPT ![p] = "delete_clearDefault"]
                  /\ UNCHANGED <<req, loc, resp>>
             ELSE Return(p, DeleteResponse(FALSE))
  /\ UNCHANGED <<files, defaultFile, clock, slots, cap, nominal, arrivals, log, restarts, day, mtimes>>

\* An unlink of the default-pointer record that does nothing.
clearDefaultKeeps(d, ok) == d

\* fs.unlink of the default-pointer record, errors ignored.
clearDefault(d, ok) == IF ok THEN Null ELSE d

\* Lines 461-479: the default-pointer record is unlinked, errors ignored.
DeleteClearDefault(p) ==
  /\ pc[p] = "delete_clearDefault"
  /\ \E ok \in IOOutcomes :
       /\ defaultFile' = clearDefault(defaultFile, ok)
       /\ faultsLeft' = Spend(ok)
       /\ flt' = [flt EXCEPT ![p].write = @ \/ (~ok /\ defaultFile # Null)]
  /\ Return(p, DeleteResponse(TRUE))
  /\ UNCHANGED <<files, clock, slots, cap, nominal, arrivals, log, restarts, day, mtimes>>

\* --------------------------------------------------- set_default_session

SetDefaultRequests == [op : {"set_default_session"}, sessionId : SessionIds \cup {Null}]

\* Lines 505-511, 536-540: with a sessionId fs.access is awaited, without one
\* the unlink of the default-pointer record.
SetDefaultStart(p) ==
  \E r \in SetDefaultRequests :
    /\ Begin(p, r, IF r.sessionId # Null THEN "setDefault_access" ELSE "setDefault_clear",
             [session |-> r.sessionId])
    /\ UNCHANGED <<files, defaultFile, clock, resp, slots, cap, nominal, faultsLeft, log,
                   flt, restarts, day, mtimes>>

\* set_default_session called with the name of the default-pointer record.
SetDefaultStartNamed(p) ==
  /\ Begin(p, [op |-> "set_default_session", sessionId |-> PointerName],
           "setDefault_access", [session |-> PointerName])
  /\ UNCHANGED <<files, defaultFile, clock, resp, slots, cap, nominal, faultsLeft, log,
                 flt, restarts, day, mtimes>>

\* Lines 509-525: the record must be accessible, else the handler returns.
SetDefaultAccess(p) ==
  /\ pc[p] = "setDefault_access"
  /\ \E ok \in IOOutcomes :
       /\ faultsLeft' = Spend(ok)
       /\ flt' = [flt EXCEPT ![p].read =
                              @ \/ (~ok /\ Accessible(files, defaultFile, loc[p].session))]
       /\ IF ok /\ Accessible(files, defaultFile, loc[p].session)
          THEN /\ pc' = [pc EXCEPT ![p] = "setDefault_write"]
               /\ UNCHANGED <<req, loc, resp>>
          ELSE Return(p, ErrorResponse("Invalid session ID"))
  /\ UNCHANGED <<files, defaultFile, clock, slots, cap, nominal, arrivals, log, restarts, day, mtimes>>

SetDefaultResponse(message) ==
  [kind |-> "set_default_session", status |-> "success", message |-> message]

\* Lines 525-535: the default pointer is written.
SetDefaultWrite(p) ==
  /\ pc[p] = "setDefault_write"
  /\ \E ok \in IOOutcomes :
       /\ defaultFile' = setDefaultSession(defaultFile, loc[p].session, ok)
       /\ faultsLeft' = Spend(ok)
       /\ flt' = [flt EXCEPT ![p].write = @ \/ ~ok]
  /\ Return(p, SetDefaultResponse("Default session set"))
  /\ UNCHANGED <<files, clock, slots, cap, nominal, arrivals, log, restarts, day, mtimes>>

\* Lines 537-555: the default-pointer record is unlinked, errors ignored.
SetDefaultClear(p) ==
  /\ pc[p] = "setDefault_clear"
  /\ \E ok \in IOOutcomes :
       /\ defaultFile' = clearDefault(defaultFile, ok)
       /\ faultsLeft' = Spend(ok)
       /\ flt' = [flt EXCEPT ![p].write = @ \/ (~ok /\ defaultFile # Null)]
  /\ Return(p, SetDefaultResponse("Default session cleared"))
  /\ UNCHANGED <<files, clock, slots, cap, nominal, arrivals, log, restarts, day, mtimes>>

\* ------------------------------------------------- find_thought_relationships

Queries == {<<"a">>, <<"A">>, <<"b">>, <<>>}
DefaultLimit == 10
FindRequests == [op : {"find_thought_relationships"}, sessionId : SessionIds \cup {Null}]
\* The search arguments are bound in the step that reads them.
FindSearches ==
  [ query : Queries,
    relationship_types : {Null, <<"builds_on">>},
    exclude_thought_id : {Null, ThoughtIdOf(0, "j")},
    limit : {1, DefaultLimit} ]

\* Lines 626-637: without a sessionId the default pointer is awaited.
FindStart(p) ==
  \E r \in FindRequests :
    /\ Begin(p, r, IF r.sessionId # Null THEN "find_load" ELSE "find_getDefault",
             [session |-> r.sessionId])
    /\ UNCHANGED <<files, defaultFile, clock, resp, slots, cap, nominal, faultsLeft, log,
                   flt, restarts, day, mtimes>>

\* Lines 632-637: the default pointer is read; without one the handler returns.
FindGetDefault(p) ==
  /\ pc[p] = "find_getDefault"
  /\ \E ok \in IOOutcomes :
       LET session == getDefaultSession(defaultFile, ok)
       IN /\ faultsLeft' = Spend(ok)
          /\ flt' = [flt EXCEPT ![p].ptr = @ \/ (~ok /\ defaultFile # Null)]
          /\ IF session = Null
             THEN Return(p, ErrorResponse("No session ID provided and no default session set"))
             ELSE /\ loc' = [loc EXCEPT ![p] = [session |-> session]]
                  /\ pc' = [pc EXCEPT ![p] = "find_load"]
                  /\ UNCHANGED <<req, resp>>
  /\ UNCHANGED <<files, defaultFile, clock, slots, cap, nominal, arrivals, log, restarts, day, mtimes>>

\* Lines 639-686: the session is loaded and searched.
FindLoad(p) ==
  /\ pc[p] = "find_load"
  /\ \E ok \in IOOutcomes, a \in FindSearches :
       LET thoughts == loadSession(files, loc[p].session, ok)
           searchResults == SearchResults(thoughts, a.query, a.relationship_types,
                                          a.exclude_thought_id, a.limit)
       IN /\ faultsLeft' = Spend(ok)
          /\ flt' = [flt EXCEPT ![p].read = @ \/ (~ok /\ files[loc[p].session].exists),
                                 ![p].asked = a]
          /\ IF Len(thoughts) = 0
             THEN Return(p, [ kind |-> "find_thought_relationships",
                              results |-> <<>>, total |-> 0, query |-> a.query ])
             ELSE Return(p, [ kind |-> "find_thought_relationships",
                              results |-> searchResults,
                              total |-> Len(searchResults),
                              query |-> a.query,
                              sessionId |-> loc[p].session,
                              searched_thoughts |-> Len(thoughts) ])
  /\ UNCHANGED <<files, defaultFile, clock, slots, cap, nominal, arrivals, log, restarts, day, mtimes>>

\* --------------------------------------------------------- list_sessions

NoTime == -1
\* fs.readdir filtered to the session records: the identifiers on disk.
readdirSessions(f) == {s \in SessionIds : f[s].exists}

\* The storage failures that can strike while the summaries are built.
ListFaults(names) ==
  {[kind |-> "none"]} \cup
  (IF faultsLeft > 0 THEN [kind : {"stat", "read"}, at : names] ELSE {})

\* A summary that takes the first thought for the last one.
SessionSummaryFirstOnly(f, sessionId, defaultSessionId, ok) ==
  LET thoughts == loadSession(f, sessionId, ok)
  IN [ sessionId |-> sessionId,
       thoughtCount |-> Len(thoughts),
       firstThought |-> IF thoughts # <<>> THEN thoughts[1].timestamp ELSE NoTime,
       lastThought |-> IF thoughts # <<>> THEN thoughts[1].timestamp ELSE NoTime,
       isDefault |-> sessionId = defaultSessionId ]

\* Lines 319-333: the summary of one session record.
SessionSummary(f, sessionId, defaultSessionId, ok) ==
  LET thoughts == loadSession(f, sessionId, ok)
  IN [ sessionId |-> sessionId,
       thoughtCount |-> Len(thoughts),
       firstThought |-> IF thoughts # <<>> THEN thoughts[1].timestamp ELSE NoTime,
       lastThought |-> IF thoughts # <<>> THEN thoughts[Len(thoughts)].timestamp ELSE NoTime,
       isDefault |-> sessionId = defaultSessionId ]

\* Line 304: the handler is entered.
ListStart(p) ==
  /\ Begin(p, [op |-> "list_sessions"], "list_readdir", NoLoc)
  /\ UNCHANGED <<files, defaultFile, clock, resp, slots, cap, nominal, faultsLeft, log,
                 flt, restarts, day, mtimes>>

\* Lines 306-307, 357-367: the directory is read, or the failure is returned.
ListReaddir(p) ==
  /\ pc[p] = "list_readdir"
  /\ \E ok \in IOOutcomes :
       /\ faultsLeft' = Spend(ok)
       /\ IF ok
          THEN /\ loc' = [loc EXCEPT ![p] = [session |-> Null,
                                             names |-> readdirSessions(files)]]
               /\ pc' = [pc EXCEPT ![p] = "list_getDefault"]
               /\ UNCHANGED <<req, resp>>
          ELSE Return(p, ErrorResponse("Failed to list sessions"))
  /\ UNCHANGED <<files, defaultFile, clock, slots, cap, nominal, arrivals, log, flt, restarts, day, mtimes>>

\* Lines 310-315: the default pointer is read.
ListGetDefault(p) ==
  /\ pc[p] = "list_getDefault"
  /\ \E ok \in IOOutcomes :
       /\ faultsLeft' = Spend(ok)
       /\ flt' = [flt EXCEPT ![p].ptr = @ \/ (~ok /\ defaultFile # Null)]
       /\ loc' = [loc EXCEPT ![p] = @ @@ [defaultSessionId |->
                                            getDefaultSession(defaultFile, ok)]]
  /\ pc' = [pc EXCEPT ![p] = "list_summaries"]
  /\ UNCHANGED <<files, defaultFile, clock, req, resp, slots, cap, nominal, arrivals, log,
                 restarts, day, mtimes>>

\* Lines 317-367: every listed record is inspected and loaded; a record
\* that is gone by now, or a failing stat, fails the whole request.
ListSummaries(p) ==
  /\ pc[p] = "list_summaries"
  /\ \E fault \in ListFaults(loc[p].names) :
       LET names == loc[p].names
           statFails == \/ \E s \in names : ~files[s].exists
                        \/ fault.kind = "stat"
           unread == IF fault.kind = "read" THEN {fault.at} ELSE {}
       IN /\ faultsLeft' = Spend(fault.kind = "none")
          /\ flt' = [flt EXCEPT ![p].read = @ \/ fault.kind = "read"]
          /\ IF statFails
             THEN Return(p, ErrorResponse("Failed to list sessions"))
             ELSE Return(p, [ kind |-> "list_sessions",
                              sessions |-> [s \in names |->
                                              SessionSummary(files, s,
                                                loc[p].defaultSessionId, s \notin unread)],
                              count |-> Cardinality(names),
                              defaultSessionId |-> loc[p].defaultSessionId ])
  /\ UNCHANGED <<files, defaultFile, clock, slots, cap, nominal, arrivals, log, restarts, day, mtimes>>

\* ---------------------------------------------------------- process restart

\* A restart that comes up without the default pointer.
RestartForgetful ==
  /\ \A p \in Procs : pc[p] = "idle"
  /\ restarts < MaxRestarts
  /\ restarts' = restarts + 1
  /\ defaultFile' = Null
  /\ UNCHANGED <<files, clock, pc, req, loc, resp, flt, slots, cap, nominal, arrivals,
                 faultsLeft, log, day, mtimes>>

\* Lines 791-821: the process exits between two requests and main() starts
\* it again; the handlers' locals are all that the process holds.
Restart ==
  /\ \A p \in Procs : pc[p] = "idle"
  /\ restarts < MaxRestarts
  /\ restarts' = restarts + 1
  /\ pc' = [p \in Procs |-> "idle"]
  /\ req' = [p \in Procs |-> NoReq]
  /\ loc' = [p \in Procs |-> NoLoc]
  /\ resp' = [p \in Procs |-> NoResp]
  /\ flt' = [p \in Procs |-> NoFlt]
  /\ UNCHANGED <<files, defaultFile, clock, slots, cap, nominal, arrivals, faultsLeft, log, day, mtimes>>

\* ------------------------------------------------------ cleanup_sessions

\* 1000 * 60 * 60 * 24
DayMs == 86400000
SweepAges == {1, 2}
CleanupRequests == [op : {"cleanup_sessions"}, maxAgeDays : SweepAges]

\* An age test that also takes a record of exactly maxAgeDays.
OlderOrAsOld(now, mtime, maxAgeDays) ==
  (now.day - mtime.day) * DayMs + (now.ms - mtime.ms) >= maxAgeDays * DayMs

\* fileAge > maxAgeDays, with fileAge = (now - stats.mtime) / DayMs.
Older(now, mtime, maxAgeDays) ==
  (now.day - mtime.day) * DayMs + (now.ms - mtime.ms) > maxAgeDays * DayMs

CleanupResponse(deletedCount, maxAgeDays) ==
  [ kind |-> "cleanup_sessions", status |-> "success",
    deletedCount |-> deletedCount, maxAgeDays |-> maxAgeDays ]

\* Lines 581-583, 84-87: the handler calls cleanupOldSessions; readdir is awaited.
CleanupStart(p) ==
  \E r \in CleanupRequests :
    /\ Begin(p, r, "cleanup_readdir", NoLoc)
    /\ UNCHANGED <<files, defaultFile, clock, resp, slots, cap, nominal, faultsLeft, log,
                   flt, restarts, day, mtimes>>

\* The loop of cleanupOldSessions goes on with the next file, or the
\* handler returns the count.
CleanupNext(p, todo, deletedCount) ==
  IF todo = {}
  THEN Return(p, CleanupResponse(deletedCount, req[p].maxAgeDays))
  ELSE /\ loc' = [loc EXCEPT ![p].todo = todo, ![p].deletedCount = deletedCount]
       /\ pc' = [pc EXCEPT ![p] = "cleanup_stat"]
       /\ UNCHANGED <<req, resp>>

\* Lines 87-91, 105-108, 597-607: the directory is read and the time taken,
\* or the failure is returned.
CleanupReaddir(p) ==
  /\ pc[p] = "cleanup_readdir"
  /\ \E ok \in IOOutcomes :
       /\ faultsLeft' = Spend(ok)
       /\ IF ok
          THEN IF readdirSessions(files) = {}
               THEN Return(p, CleanupResponse(0, req[p].maxAgeDays))
               ELSE /\ loc' = [loc EXCEPT ![p] = [ session |-> Null,
                                                  names |-> readdirSessions(files),
                                                  todo |-> readdirSessions(files),
                                                  now |-> TimeOf(day, clock),
                                                  deletedCount |-> 0 ]]
                    /\ pc' = [pc EXCEPT ![p] = "cleanup_stat"]
                    /\ UNCHANGED <<req, resp>>
          ELSE Return(p, ErrorResponse("Failed to clean up sessions"))
  /\ UNCHANGED <<files, defaultFile, clock, slots, cap, nominal, arrivals, log, flt,
                 restarts, day, mtimes>>

\* Lines 91-98, 105-108: the next file of the listing is inspected; a file
\* that is old enough is unlinked next.
CleanupStat(p) ==
  /\ pc[p] = "cleanup_stat"
  /\ \E s \in loc[p].todo, ok \in IOOutcomes :
       /\ faultsLeft' = Spend(ok)
       /\ flt' = [flt EXCEPT ![p].read = @ \/ (~ok /\ files[s].exists)]
       /\ IF ~ok \/ ~files[s].exists
          THEN Return(p, ErrorResponse("Failed to clean up sessions"))
          ELSE IF Older(loc[p].now, mtimes[s], req[p].maxAgeDays)
          THEN /\ loc' = [loc EXCEPT ![p].session = s]
               /\ pc' = [pc EXCEPT ![p] = "cleanup_unlink"]
               /\ UNCHANGED <<req, resp>>
          ELSE CleanupNext(p, loc[p].todo \ {s}, loc[p].deletedCount)
  /\ UNCHANGED <<files, defaultFile, clock, slots, cap, nominal, arrivals, log, restarts,
                 day, mtimes>>

\* Lines 98-108: the old record is unlinked and counted, or the failure is
\* returned.
CleanupUnlink(p) ==
  /\ pc[p] = "cleanup_unlink"
  /\ \E ok \in IOOutcomes :
       LET s == loc[p].session
       IN /\ faultsLeft' = Spend(ok)
          /\ IF ok /\ files[s].exists
             THEN /\ files' = unlinkSession(files, s)
                  /\ mtimes' = [mtimes EXCEPT ![s] = NoMtime]
                  /\ log' = [log EXCEPT ![s] = <<>>]
                  /\ flt' = [flt EXCEPT ![p].deleted = @ + 1,
                                        ![p].sweptDefault = @ \/ defaultFile = s]
                  /\ CleanupNext(p, loc[p].todo \ {s}, loc[p].deletedCount + 1)
             ELSE /\ flt' = [flt EXCEPT ![p].write = @ \/ files[s].exists]
                  /\ Return(p, ErrorResponse("Failed to clean up sessions"))
                  /\ UNCHANGED <<files, mtimes, log>>
  /\ UNCHANGED <<defaultFile, clock, slots, cap, nominal, arrivals, restarts, day>>

\* A day goes by.
DayPasses ==
  /\ day < MaxDay
  /\ day' = day + 1
  /\ UNCHANGED <<files, defaultFile, clock, pc, req, loc, resp, slots, faultsLeft, cap,
                 nominal, arrivals, log, flt, restarts, mtimes>>

\* ------------------------------------------- buildReasoningChain, applied

\* The session that holds the list handed to buildReasoningChain.
ChainSession == SessionIdOf(0, "k")
\* The identifier of the i-th thought of such a list; no thought has
\* ChainId(0).
ChainId(i) == ThoughtIdOf(i, "j")

\* A stored thought with its relationship fields as the think handler sets
\* them (lines 166-200).
ChainThought(i, relates_to, relationship_type) ==
  [NewThought(ChainId(i), <<"a">>, NoStr, Null, i) EXCEPT
     !.relates_to = relates_to, !.relationship_type = relationship_type]

\* A list of n thoughts, each building on the one before it. The first
\* thought has no relationship ("line"), builds on the last thought
\* ("cycle") or on a thought that is not in the list ("dangling"); thought
\* k, if k > 1, supports the one before it instead of building on it.
ChainList(n, shape, k) ==
  [i \in 1 .. n |->
     IF i = 1
     THEN CASE shape = "line" -> ChainThought(1, Null, NoStr)
            [] shape = "cycle" -> ChainThought(1, ChainId(n), "builds_on")
            [] shape = "dangling" -> ChainThought(1, ChainId(0), "builds_on")
     ELSE ChainThought(i, ChainId(i - 1), IF i = k THEN "supports" ELSE "builds_on")]

ChainInputs ==
  {ChainList(n, shape, 0) : n \in 1 .. MaxChain, shape \in {"line", "cycle", "dangling"}}
    \cup UNION {{ChainList(n, "line", k) : k \in 2 .. n} : n \in 1 .. MaxChain}

\* A session directory that holds one record, with one of the lists.
InitChain ==
  /\ \E thoughts \in ChainInputs :
       files = [s \in SessionIds |->
                  IF s = ChainSession THEN FileOf(thoughts) ELSE NoFile]
  /\ defaultFile = Null
  /\ clock = 0
  /\ pc = [p \in Procs |-> "idle"]
  /\ req = [p \in Procs |-> NoReq]
  /\ loc = [p \in Procs |-> NoLoc]
  /\ resp = [p \in Procs |-> NoResp]
  /\ slots = 1
  /\ faultsLeft = 0
  /\ cap = MaxChain
  /\ nominal = TRUE
  /\ arrivals = -1
  /\ log = [s \in SessionIds |-> <<>>]
  /\ flt = [p \in Procs |-> NoFlt]
  /\ restarts = 0
  /\ day = 0
  /\ mtimes = [s \in SessionIds |-> NoMtime]

\* buildReasoningChain(thoughtId, thoughts) is called on the list, from one
\* of its thoughts, from an identifier that is not in it, or from none.
ChainBuild(p) ==
  /\ pc[p] = "idle"
  /\ p <= slots
  /\ \E i \in 0 .. Len(files[ChainSession].thoughts), none \in BOOLEAN :
       LET thoughtId == IF none THEN Null ELSE ChainId(i)
       IN resp' = [resp EXCEPT ![p] =
                     [ kind |-> "chain",
                       thoughtId |-> thoughtId,
                       chain |-> buildReasoningChain(thoughtId,
                                                     files[ChainSession].thoughts) ]]
  /\ pc' = [pc EXCEPT ![p] = "done"]
  /\ UNCHANGED <<files, defaultFile, clock, req, loc, slots, faultsLeft, cap, nominal,
                 arrivals, log, flt, restarts, day, mtimes>>


\* ------------------------------------- think on a session stored beforehand

\* The suffixes of the identifiers of the thoughts stored beforehand.
RelatedSfx == <<"k", "a", "b", "c", "d", "e">>

\* The list the think handler leaves (lines 165-202) after a first thought
\* and one thought for every relationship type of kinds, each relating to
\* the first thought; a thought that contradicts has another content.
RECURSIVE RelatedList(_)
RelatedList(kinds) ==
  IF kinds = <<>> THEN <<NewThought(ThoughtIdOf(0, "j"), <<"a">>, NoStr, Null, 0)>>
  ELSE LET n == Len(kinds)
           obj == NewThought(ThoughtIdOf(0, RelatedSfx[n]),
                             IF kinds[n] = "contradicts" THEN <<"b">> ELSE <<"a">>,
                             NoStr, Null, 0)
       IN PushThought(RelatedList(SubSeq(kinds, 1, n - 1)), obj, ThoughtIdOf(0, "j"),
                      kinds[n])

RelatedKinds ==
  UNION {[1 .. n -> {"builds_on", "contradicts", "supports"}] : n \in 0 .. MaxRelated}

\* A session directory that holds one record, written by earlier think
\* requests; one more thought is accepted.
InitContext ==
  /\ \E kinds \in RelatedKinds :
       /\ files = [s \in SessionIds |->
                     IF s = ChainSession THEN FileOf(RelatedList(kinds)) ELSE NoFile]
       /\ cap = Len(kinds) + 2
  /\ defaultFile = Null
  /\ clock = 0
  /\ pc = [p \in Procs |-> "idle"]
  /\ req = [p \in Procs |-> NoReq]
  /\ loc = [p \in Procs |-> NoLoc]
  /\ resp = [p \in Procs |-> NoResp]
  /\ slots = 1
  /\ faultsLeft = 0
  /\ nominal = FALSE
  /\ arrivals = -1
  /\ log = [s \in SessionIds |-> <<>>]
  /\ flt = [p \in Procs |-> NoFlt]
  /\ restarts = 0
  /\ day = 0
  /\ mtimes = [s \in SessionIds |-> NoMtime]

\* ----------------------- find_thought_relationships on a stored session

\* The (reasoning, mode, tags) parts of the thoughts of a searched session.
SearchPayloads ==
  { [reasoning |-> <<"a">>, mode |-> NoStr, tags |-> Null],
    [reasoning |-> <<"b">>, mode |-> "critical", tags |-> << <<"t">> >>],
    [reasoning |-> <<"a">>, mode |-> NoStr, tags |-> << <<"B">> >>] }

\* What the think requests that wrote a searched session gave: the parts of
\* the thought, and the type of its relationship to the first thought or
\* none.
SearchItems == [w : SearchPayloads, kind : {NoStr, "builds_on", "supports"}]

\* The list the think handler leaves (lines 165-202) after these requests.
RECURSIVE SearchList(_)
SearchList(items) ==
  IF items = <<>> THEN <<>>
  ELSE LET n == Len(items)
           it == items[n]
           obj == NewThought(ThoughtIdOf(0, IF n = 1 THEN "j" ELSE RelatedSfx[n - 1]),
                             it.w.reasoning, it.w.mode, it.w.tags, 0)
       IN PushThought(SearchList(SubSeq(items, 1, n - 1)), obj,
                      IF n = 1 THEN Null ELSE ThoughtIdOf(0, "j"), it.kind)

SearchInputs ==
  {SearchList(items) :
     items \in UNION {[1 .. n -> SearchItems] : n \in 1 .. MaxSearched}}

\* A session directory that holds one record, written by earlier think
\* requests.
InitFind ==
  /\ \E thoughts \in SearchInputs :
       files = [s \in SessionIds |->
                  IF s = ChainSession THEN FileOf(thoughts) ELSE NoFile]
  /\ defaultFile \in {Null, ChainSession}
  /\ clock = 0
  /\ pc = [p \in Procs |-> "idle"]
  /\ req = [p \in Procs |-> NoReq]
  /\ loc = [p \in Procs |-> NoLoc]
  /\ resp = [p \in Procs |-> NoResp]
  /\ slots = 1
  /\ faultsLeft = 0
  /\ cap = MaxSearched
  /\ nominal = FALSE
  /\ arrivals = -1
  /\ log = [s \in SessionIds |-> <<>>]
  /\ flt = [p \in Procs |-> NoFlt]
  /\ restarts = 0
  /\ day = 0
  /\ mtimes = [s \in SessionIds |-> NoMtime]

\* ------------------------------------------ calculateRelevanceScore, applied

\* The thoughts that are scored: the second thought of a session, as the
\* think handler stores it (lines 165-202).
ScoredItems ==
  [ w : [ reasoning : {<<"a">>, <<"a", " ", "b">>, <<"B">>},
          mode : {NoStr, "critical"},
          tags : {Null, << <<"a">> >>, << <<"A">>, <<"b", " ", "a">> >>} ],
    kind : {NoStr, "builds_on"} ]

ScoreInputs ==
  {SearchList(<<[w |-> [reasoning |-> <<"a">>, mode |-> NoStr, tags |-> Null],
                 kind |-> NoStr], it>>) : it \in ScoredItems}

\* The queries of the searches, some with white space around their words.
ScoreQueries ==
  { <<"a">>, <<"A">>, <<"b">>, <<"a", " ", "b">>, <<"b", " ", " ", "a">>,
    <<"a", " ">>, <<" ", "a">>, <<>> }

InitScore ==
  /\ \E thoughts \in ScoreInputs :
       files = [s \in SessionIds |->
                  IF s = ChainSession THEN FileOf(thoughts) ELSE NoFile]
  /\ defaultFile = Null
  /\ clock = 0
  /\ pc = [p \in Procs |-> "idle"]
  /\ req = [p \in Procs |-> NoReq]
  /\ loc = [p \in Procs |-> NoLoc]
  /\ resp = [p \in Procs |-> NoResp]
  /\ slots = 1
  /\ faultsLeft = 0
  /\ cap = MaxSearched
  /\ nominal = FALSE
  /\ arrivals = -1
  /\ log = [s \in SessionIds |-> <<>>]
  /\ flt = [p \in Procs |-> NoFlt]
  /\ restarts = 0
  /\ day = 0
  /\ mtimes = [s \in SessionIds |-> NoMtime]

\* calculateRelevanceScore(t, queryLower) is called on a thought of the
\* list with the lower-cased query, as the search does (lines 644, 674).
ScoreApply(p) ==
  /\ pc[p] = "idle"
  /\ p <= slots
  /\ \E i \in 1 .. Len(files[ChainSession].thoughts), query \in ScoreQueries :
       resp' = [resp EXCEPT ![p] =
                  [ kind |-> "score",
                    thought |-> files[ChainSession].thoughts[i],
                    query |-> query,
                    score |-> calculateRelevanceScore(files[ChainSession].thoughts[i],
                                                      toLowerCase(query)) ]]
  /\ pc' = [pc EXCEPT ![p] = "done"]
  /\ UNCHANGED <<files, defaultFile, clock, req, loc, slots, faultsLeft, cap, nominal,
                 arrivals, log, flt, restarts, day, mtimes>>
\* ------------------------------------------------------- specifications

Think(p) ==
  \/ ThinkStart(p)
  \/ ThinkGetDefault(p)
  \/ ThinkLoad(p)
  \/ ThinkSave(p)
  \/ ThinkSetDefault(p)

DeleteSession(p) ==
  \/ DeleteStart(p)
  \/ DeleteUnlink(p)
  \/ DeleteGetDefault(p)
  \/ DeleteClearDefault(p)

SetDefaultSession(p) ==
  \/ SetDefaultStart(p)
  \/ SetDefaultAccess(p)
  \/ SetDefaultWrite(p)
  \/ SetDefaultClear(p)

ViewSession(p) ==
  \/ ViewStart(p)
  \/ ViewGetDefault(p)
  \/ ViewLoad(p)

FindThoughtRelationships(p) ==
  \/ FindStart(p)
  \/ FindGetDefault(p)
  \/ FindLoad(p)

ListSessions(p) ==
  \/ ListStart(p)
  \/ ListReaddir(p)
  \/ ListGetDefault(p)
  \/ ListSummaries(p)

CleanupSessions(p) ==
  \/ CleanupStart(p)
  \/ CleanupReaddir(p)
  \/ CleanupStat(p)
  \/ CleanupUnlink(p)

\* Appends alone, for sessions of up to MaxThoughtsBurst thoughts.
NextThink ==
  \/ Tick
  \/ \E p \in Procs : Deliver(p) \/ Think(p)

\* The requests that write.
NextWriters ==
  \/ NextThink
  \/ \E p \in Procs : DeleteSession(p) \/ SetDefaultSession(p)

Next ==
  \/ NextWriters
  \/ Restart
  \/ \E p \in Procs : ViewSession(p) \/ FindThoughtRelationships(p) \/ ListSessions(p)

\* Appends, default-pointer changes and retention sweeps, as the days go by.
NextSweep ==
  \/ DayPasses
  \/ \E p \in Procs : Deliver(p) \/ Think(p) \/ SetDefaultSession(p) \/ CleanupSessions(p)

\* The requests that write, with the name of the default-pointer record
\* among the sessionIds given to delete_session and set_default_session.
NextNamed ==
  \/ NextWriters
  \/ \E p \in Procs : DeleteStartNamed(p) \/ SetDefaultStartNamed(p)

\* buildReasoningChain applied to a list, again and again.
NextChain == \E p \in Procs : ChainBuild(p) \/ Deliver(p)

\* Searches alone.
NextFind == \E p \in Procs : Deliver(p) \/ FindThoughtRelationships(p)

\* calculateRelevanceScore applied to a thought, again and again.
NextScore == \E p \in Procs : ScoreApply(p) \/ Deliver(p)

Spec == Init /\ [][Next]_vars
SpecEnv == InitEnv /\ [][Next]_vars
SpecConc == InitConc /\ [][NextWriters]_vars
SpecBurst == InitBurst /\ [][NextThink]_vars
SpecSweep == InitSweep /\ [][NextSweep]_vars
SpecNamed == InitNamed /\ [][NextNamed]_vars
SpecChain == InitChain /\ [][NextChain]_vars
SpecContext == InitContext /\ [][NextThink]_vars
SpecFind == InitFind /\ [][NextFind]_vars
SpecScore == InitScore /\ [][NextScore]_vars

\* ------------------------------------------------------------ properties

\* What the caller was told about each thought of a list.
Acks(thoughts) ==
  [i \in 1 .. Len(thoughts) |-> [id |-> thoughts[i].id, content |-> thoughts[i].content]]

\* No append is between its write and its acknowledgement.
Settled == \A p \in Procs : pc[p] # "think_setDefault"

\* C1: with one request at a time and no storage failure, loading a session
\* returns exactly the thoughts whose appends were acknowledged, in the
\* order they were submitted, with non-decreasing timestamps.
C1_AppendOrder ==
  Settled =>
    \A s \in SessionIds :
      LET loaded == loadSession(files, s, TRUE)
      IN /\ Acks(loaded) = log[s]
         /\ \A i, j \in 1 .. Len(loaded) :
              i < j => loaded[i].timestamp <= loaded[j].timestamp

C1_Witness ==
  /\ Settled
  /\ \E s \in SessionIds :
       /\ Len(log[s]) >= 2
       /\ log[s][1].content # log[s][2].content
       /\ Len(files[s].thoughts) = Len(log[s])
       /\ files[s].thoughts[1].timestamp < files[s].thoughts[2].timestamp

\* Both requests of a pair that loaded one session before either wrote it
\* have returned: p wrote first, q second.
RacePair(p, q) ==
  /\ pc[p] = "done" /\ flt[p].raced = 1
  /\ pc[q] = "done" /\ flt[q].raced = 2

\* C2: when two thinks load the same session before either writes, both
\* return a success response, and the persisted list is the second
\* writer's list: it ends with the second writer's thought, has the length
\* the second writer reported, and does not hold the first writer's thought.
C2_LostUpdate ==
  \A p, q \in Procs :
    RacePair(p, q) =>
      /\ resp[p].kind = "think" /\ resp[q].kind = "think"
      /\ resp[p].sessionId = resp[q].sessionId
      /\ LET list == files[resp[q].sessionId].thoughts
         IN /\ Len(list) = resp[q].thoughtCount
            /\ list[Len(list)].id = resp[q].thoughtId
            /\ list[Len(list)].content = resp[q].thinking
            /\ flt[p].fresh => \A i \in 1 .. Len(list) : list[i].id # resp[p].thoughtId

C2_Witness ==
  \E p, q \in Procs :
    /\ RacePair(p, q)
    /\ flt[p].fresh
    /\ resp[p].kind = "think" /\ resp[q].kind = "think"
    /\ resp[p].thoughtCount = resp[q].thoughtCount
    /\ Len(files[resp[q].sessionId].thoughts) = resp[q].thoughtCount

\* A view_session result that is in hand shows the acknowledged thoughts.
ViewShowsAcknowledged ==
  \A p \in Procs :
    (pc[p] = "done" /\ resp[p].kind = "view_session")
      => Acks(resp[p].thoughts) = log[resp[p].sessionId]

\* C3: a restart between two requests leaves every session record and the
\* default pointer as they were, and view_session after a restart returns
\* the thoughts whose appends were acknowledged.
C3_SurvivesRestart ==
  /\ [](restarts > 0 => ViewShowsAcknowledged)
  /\ [][restarts' # restarts =>
          /\ files' = files
          /\ defaultFile' = defaultFile
          /\ log' = log]_vars

C3_Witness ==
  /\ restarts > 0
  /\ \E p \in Procs :
       /\ pc[p] = "done"
       /\ resp[p].kind = "view_session"
       /\ resp[p].usingDefaultSession
       /\ resp[p].count >= 1

\* The result reports a write as done.
ReportsWrite(p) ==
  \/ resp[p].kind = "think"
  \/ resp[p].kind = "set_default_session" /\ resp[p].message = "Default session set"

\* C4: a request whose write of the session record or of the default
\* pointer failed does not return a success result.
C4_WriteFailureReported ==
  \A p \in Procs : ~(pc[p] = "done" /\ flt[p].write /\ ReportsWrite(p))

\* C5: a request whose load of an existing session record failed returns
\* an error.
C5_ReadFailureReported ==
  \A p \in Procs : (pc[p] = "done" /\ flt[p].read) => resp[p].kind = "error"

\* The step in which slot p loads a session that has no record and returns.
LoadsMissing(p) ==
  /\ pc[p] \in {"view_load", "find_load"}
  /\ ~files[loc[p].session].exists
  /\ pc'[p] = "done"

\* C6: view_session and find_thought_relationships on a session without a
\* record return an empty, non-error result and change no session record
\* and not the default pointer.
C6_MissingSessionLoad ==
  [][\A p \in Procs :
       LoadsMissing(p) =>
         /\ files' = files
         /\ defaultFile' = defaultFile
         /\ resp'[p].kind # "error"
         /\ resp'[p].kind = "view_session" =>
              resp'[p].thoughts = <<>> /\ resp'[p].count = 0
         /\ resp'[p].kind = "find_thought_relationships" =>
              resp'[p].results = <<>> /\ resp'[p].total = 0]_vars

C6_Witness ==
  /\ defaultFile # Null
  /\ \E s \in SessionIds : files[s].exists
  /\ \E p \in Procs :
       /\ pc[p] = "done"
       /\ resp[p].kind = "view_session"
       /\ ~files[resp[p].sessionId].exists
       /\ resp[p].count = 0

\* A think that is at one of its writes holds a valid relationship, if any.
WritesAreValidated ==
  \A p \in Procs :
    (pc[p] \in {"think_save", "think_setDefault"}
       /\ Linked(req[p].relates_to, req[p].relationship_type))
      => LET n == Len(loc[p].thoughts)
             i == FindIndex(SubSeq(loc[p].thoughts, 1, n - 1), req[p].relates_to)
         IN /\ req[p].relates_to # loc[p].thoughtId
            /\ i # 0
            /\ loc[p].thoughts[i].timestamp <= loc[p].thoughts[n].timestamp

\* C7: a think that fails relationship validation returns its error in the
\* step that validates and writes nothing, neither a session record nor the
\* default pointer; a think that gets to its writes has passed validation.
C7_InvalidThinkWritesNothing ==
  /\ []WritesAreValidated
  /\ [][\A p \in Procs :
          (pc[p] = "think_load" /\ pc'[p] = "done") =>
            /\ resp'[p].kind = "error"
            /\ files' = files
            /\ defaultFile' = defaultFile]_vars

C7_Witness ==
  \E p \in Procs :
    /\ pc[p] = "done"
    /\ resp[p] = ErrorResponse("Cannot reference future thoughts")
    /\ \E s \in SessionIds : Len(files[s].thoughts) >= 1

\* The think of slot p has returned, and its relates_to named no thought
\* of the list it loaded.
ReferenceMissed(p) == pc[p] = "done" /\ flt[p].ref \in {"absent", "elsewhere"}

\* C8 as stated: a think whose relates_to names no thought of the resolved
\* session's list is rejected with "Referenced thought not found".
C8_AsStated ==
  \A p \in Procs :
    ReferenceMissed(p) => resp[p] = ErrorResponse("Referenced thought not found")

\* C8: a think whose relates_to names no thought of the resolved session's
\* list is rejected: with "Cannot reference self" when relates_to is the
\* identifier generated for the new thought, and with "Referenced thought
\* not found" in every other case.
C8_MissingReferenceRejected ==
  \A p \in Procs :
    ReferenceMissed(p) =>
      resp[p] = ErrorResponse(IF flt[p].self THEN "Cannot reference self"
                              ELSE "Referenced thought not found")

C8_Witness ==
  \E p \in Procs :
    /\ pc[p] = "done"
    /\ flt[p].ref = "elsewhere"
    /\ resp[p] = ErrorResponse("Referenced thought not found")

\* C9: in every persisted session, a thought with relates_to set references
\* an identifier other than its own, carried by another thought of the same
\* session whose timestamp is not later than its own.
C9_ReferencesResolve ==
  \A s \in SessionIds :
    LET list == files[s].thoughts
    IN \A i \in 1 .. Len(list) :
         Given(list[i].relates_to) =>
           /\ list[i].relates_to # list[i].id
           /\ \E j \in 1 .. Len(list) :
                /\ j # i
                /\ list[j].id = list[i].relates_to
                /\ list[j].timestamp <= list[i].timestamp

C9_Witness ==
  /\ faultsLeft < MaxFaults
  /\ \E s \in SessionIds :
       /\ Len(files[s].thoughts) >= 2
       /\ files[s].thoughts[2].relates_to = files[s].thoughts[1].id

\* The relationships_in entries, anywhere in the list, that mirror the
\* k-th relationships_out entry of the i-th thought.
Mirrors(list, i, k) ==
  LET out == list[i].relationships_out[k]
  IN { jm \in (1 .. Len(list)) \X (1 .. Len(list)) :
         /\ list[jm[1]].id = out.thought_id
         /\ jm[2] <= Len(list[jm[1]].relationships_in)
         /\ list[jm[1]].relationships_in[jm[2]] =
              [thought_id |-> list[i].id, relationship_type |-> out.relationship_type] }

\* C10: in every persisted session, every relationships_out entry has
\* exactly one mirrored relationships_in entry on its target.
C10_MirroredOnce ==
  \A s \in SessionIds :
    LET list == files[s].thoughts
    IN \A i \in 1 .. Len(list) :
         \A k \in 1 .. Len(list[i].relationships_out) :
           Cardinality(Mirrors(list, i, k)) = 1

\* The step in which the think of slot p returns its response.
ThinkReturns(p) == pc[p] \in {"think_save", "think_setDefault"} /\ pc'[p] = "done"

\* The step in which the think of slot p has its list written.
ThinkWrites(p) == pc[p] = "think_save" /\ pc'[p] # "think_save"

\* Every thought persisted before a step and still at its position after it
\* has the content it had.
ContentKept ==
  \A s \in SessionIds :
    \A i \in 1 .. Len(files[s].thoughts) :
      i <= Len(files'[s].thoughts)
        => files'[s].thoughts[i].content = files[s].thoughts[i].content

\* C11: the content persisted for a thought is the reasoning text supplied
\* to think, the response field thinking is that text as well, and no later
\* step changes the content of a persisted thought.
C11_ContentIsReasoning ==
  [][/\ \A p \in Procs :
          ThinkWrites(p) =>
            LET list == files'[loc[p].session].thoughts
            IN list[Len(list)].content = req[p].reasoning
     /\ \A p \in Procs : ThinkReturns(p) => resp'[p].thinking = req[p].reasoning
     /\ ContentKept]_vars

C11_Witness ==
  /\ defaultFile # Null
  /\ \E s \in SessionIds :
       /\ Len(files[s].thoughts) = 2
       /\ files[s].thoughts[1].content = <<"a">>
       /\ files[s].thoughts[2].content = <<"b">>
       /\ Len(files[s].thoughts[1].relationships_in) = 1

\* One thought as it is after a step, against what it was before: nothing
\* but relationships_in differs, and relationships_in has only grown.
KeptAs(before, after) ==
  /\ [after EXCEPT !.relationships_in = <<>>] = [before EXCEPT !.relationships_in = <<>>]
  /\ Len(after.relationships_in) >= Len(before.relationships_in)
  /\ SubSeq(after.relationships_in, 1, Len(before.relationships_in))
       = before.relationships_in

\* C12: as long as a session record is not deleted, every step leaves each
\* of its thoughts at its position, unchanged but for a grown
\* relationships_in.
C12_ThoughtsKept ==
  [][\A s \in SessionIds :
       (files[s].exists /\ files'[s].exists) =>
         /\ Len(files'[s].thoughts) >= Len(files[s].thoughts)
         /\ \A i \in 1 .. Len(files[s].thoughts) :
              KeptAs(files[s].thoughts[i], files'[s].thoughts[i])]_vars

\* The thoughts in the session directory, by session and position.
Stored == {sp \in SessionIds \X (1 .. cap) : sp[2] <= Len(files[sp[1]].thoughts)}

\* C13: no two persisted thoughts, in one session or in two, have the same
\* identifier.
C13_IdsUnique ==
  \A x, y \in Stored :
    x # y => files[x[1]].thoughts[x[2]].id # files[y[1]].thoughts[y[2]].id

\* The step in which the delete_session of slot p returns its success result.
DeleteReturns(p) ==
  pc[p] \in {"delete_getDefault", "delete_clearDefault"} /\ pc'[p] = "done"

\* Slot p takes the step of its handler that waits at the given place.
StepsFrom(p, at) == pc[p] = at /\ pc'[p] # pc[p]

\* The sessionId names a session record of the session directory.
HasRecord(sessionId) == sessionId \in SessionIds /\ files[sessionId].exists

\* C14: a successful delete_session of the session the default pointer names
\* clears the pointer and reports wasDefault true; of any other session it
\* leaves the pointer as it is and reports wasDefault false.
C14_DeleteClearsDefault ==
  [][\A p \in Procs :
       /\ (StepsFrom(p, "delete_unlink") /\ HasRecord(loc[p].session))
            => defaultFile' = defaultFile
       /\ DeleteReturns(p) =>
            /\ resp'[p].kind = "delete_session"
            /\ IF defaultFile = loc[p].session
               THEN resp'[p].wasDefault /\ defaultFile' = Null
               ELSE ~resp'[p].wasDefault /\ defaultFile' = defaultFile]_vars

C14_Witness ==
  /\ defaultFile = Null
  /\ \E s \in SessionIds : files[s].exists
  /\ \E p \in Procs :
       pc[p] = "done" /\ resp[p].kind = "delete_session" /\ resp[p].wasDefault

\* C15: delete_session of a session that has no record returns an error and
\* changes no session record and not the default pointer, whatever the
\* pointer names.
C15_DeleteMissing ==
  [][\A p \in Procs :
       (pc[p] = "delete_unlink" /\ pc'[p] # pc[p] /\ ~HasRecord(loc[p].session)) =>
         /\ pc'[p] = "done"
         /\ resp'[p] = ErrorResponse("Failed to delete session")
         /\ files' = files
         /\ defaultFile' = defaultFile]_vars

\* The sweep of slot p has returned its success result.
SweepDone(p) == pc[p] = "done" /\ resp[p].kind = "cleanup_sessions"

\* C16: after a sweep that deleted the session the default pointer named,
\* the default pointer is cleared.
C16_SweepClearsDefault ==
  \A p \in Procs : (SweepDone(p) /\ flt[p].sweptDefault) => defaultFile = Null

\* The slot is in the sweep.
Sweeping(p) == pc[p] \in {"cleanup_readdir", "cleanup_stat", "cleanup_unlink"}

\* The time from mtime to now is more than the given number of whole days.
PastAge(now, mtime, days) ==
  \/ now.day - mtime.day > days
  \/ now.day - mtime.day = days /\ now.ms > mtime.ms

\* C17: a sweep deletes a session record only if its age, from its
\* last-modified time to the time the sweep took, is greater than
\* maxAgeDays; it never touches the default pointer; when it returns its
\* count, no listed record older than that is left and deletedCount is the
\* number of listed records deleted, returned with the maxAgeDays given.
C17_SweepDeletesOld ==
  [][\A p \in Procs :
       Sweeping(p) =>
         /\ defaultFile' = defaultFile
         /\ files' # files =>
              /\ pc[p] = "cleanup_unlink"
              /\ PastAge(loc[p].now, mtimes[loc[p].session], req[p].maxAgeDays)
              /\ files' = unlinkSession(files, loc[p].session)
         /\ (pc[p] # "cleanup_readdir" /\ pc'[p] = "done"
               /\ resp'[p].kind = "cleanup_sessions") =>
              /\ \A s \in loc[p].names :
                   files'[s].exists
                     => ~PastAge(loc[p].now, mtimes'[s], req[p].maxAgeDays)
              /\ resp'[p].deletedCount
                   = Cardinality({s \in loc[p].names : ~files'[s].exists})
              /\ resp'[p].maxAgeDays = req[p].maxAgeDays]_vars

C17_Witness ==
  /\ \E s \in SessionIds :
       /\ files[s].exists
       /\ TimeOf(day, clock) = [mtimes[s] EXCEPT !.day = @ + 1]
  /\ \E p \in Procs :
       SweepDone(p) /\ resp[p].deletedCount = 1 /\ resp[p].maxAgeDays = 1

\* C18: a sweep that has deleted records returns their count, not an error.
C18_SweepNeverPartial ==
  \A p \in Procs :
    (pc[p] = "done" /\ flt[p].deleted > 0) =>
      /\ resp[p].kind = "cleanup_sessions"
      /\ resp[p].deletedCount = flt[p].deleted

\* C19: set_default_session with a sessionId that has no session record
\* returns the error "Invalid session ID" and leaves the default pointer as
\* it was; with a sessionId that has a record it returns success and the
\* default pointer then names that session. No session record changes.
C19_SetDefaultValidates ==
  [][\A p \in Procs :
       /\ StepsFrom(p, "setDefault_access") =>
            /\ defaultFile' = defaultFile /\ files' = files
            /\ IF HasRecord(loc[p].session)
               THEN pc'[p] = "setDefault_write" /\ loc'[p] = loc[p]
               ELSE pc'[p] = "done"
                    /\ resp'[p] = ErrorResponse("Invalid session ID")
       /\ StepsFrom(p, "setDefault_write") =>
            /\ HasRecord(loc[p].session)
            /\ defaultFile' = loc[p].session /\ files' = files
            /\ pc'[p] = "done"
            /\ resp'[p].kind = "set_default_session"
            /\ resp'[p].status = "success"]_vars

\* C20: set_default_session without a sessionId returns success and leaves
\* no default pointer, whether or not one was set, and changes no session
\* record; so clearing again gives the same state.
C20_ClearIdempotent ==
  [][\A p \in Procs :
       StepsFrom(p, "setDefault_clear") =>
         /\ defaultFile' = Null /\ files' = files
         /\ pc'[p] = "done"
         /\ resp'[p] = SetDefaultResponse("Default session cleared")]_vars

C20_Witness ==
  /\ defaultFile = Null
  /\ \E s \in SessionIds : files[s].exists
  /\ \E p \in Procs :
       pc[p] = "done" /\ resp[p] = SetDefaultResponse("Default session cleared")

\* Slot p is in the think handler.
Thinking(p) == pc[p] \in {"think_getDefault", "think_load", "think_save", "think_setDefault"}

\* C21: a think with setAsDefault returns the session it appended to and
\* the default pointer then names that session; a think without it never
\* changes the default pointer, whichever session it appends to.
C21_SetAsDefault ==
  [][\A p \in Procs :
       /\ (pc'[p] # pc[p] /\ Thinking(p)') => defaultFile' = defaultFile
       /\ (StepsFrom(p, "think_save") /\ pc'[p] = "done") =>
            /\ defaultFile' = defaultFile
            /\ resp'[p].kind = "think"
            /\ resp'[p].sessionId = loc[p].session
            /\ resp'[p].isDefaultSession = resp'[p].usingDefaultSession
       /\ StepsFrom(p, "think_setDefault") =>
            /\ pc'[p] = "done"
            /\ resp'[p].kind = "think"
            /\ resp'[p].isDefaultSession
            /\ resp'[p].sessionId = loc[p].session
            /\ files[loc[p].session].thoughts = loc[p].thoughts
            /\ defaultFile' = resp'[p].sessionId]_vars

C21_Witness ==
  \E p \in Procs :
    /\ pc[p] = "done"
    /\ resp[p].kind = "think"
    /\ resp[p].isDefaultSession /\ ~resp[p].usingDefaultSession
    /\ ~resp[p].isNewSession
    /\ defaultFile = resp[p].sessionId

\* C22: a think with newChat has resolved, when it loads its session, a
\* session identifier generated for it, not the default session, and
\* isNewSession is true.
C22_NewChatIsNew ==
  \A p \in Procs :
    (pc[p] = "think_load" /\ req[p].newChat) =>
      /\ loc[p].isNewSession
      /\ ~loc[p].usedDefaultSession

\* C23: a think without newChat has resolved, when it loads its session:
\* the sessionId given, whatever useDefaultSession and the default pointer
\* are; else, with useDefaultSession and a default pointer set, the default
\* session, with usedDefaultSession true; else a generated session, which is
\* not the default session.
C23_SessionPriority ==
  \A p \in Procs :
    (pc[p] = "think_load" /\ ~req[p].newChat) =>
      IF req[p].sessionId # Null
      THEN /\ loc[p].session = req[p].sessionId
           /\ ~loc[p].usedDefaultSession /\ ~loc[p].isNewSession
      ELSE IF req[p].useDefaultSession /\ defaultFile # Null
      THEN /\ loc[p].session = defaultFile
           /\ loc[p].usedDefaultSession /\ ~loc[p].isNewSession
      ELSE /\ ~loc[p].usedDefaultSession /\ loc[p].isNewSession
           /\ loc[p].session # defaultFile

\* C24: the thoughtCount a think returns is the number of thoughts its
\* session then holds, one more than the session held before; a think on a
\* generated session identifier returns thoughtCount 1.
C24_ThoughtCount ==
  [][\A p \in Procs :
       /\ StepsFrom(p, "think_save") =>
            Len(files'[loc[p].session].thoughts) = Len(files[loc[p].session].thoughts) + 1
       /\ ThinkReturns(p) =>
            /\ resp'[p].thoughtCount = Len(files'[resp'[p].sessionId].thoughts)
            /\ resp'[p].isNewSession => resp'[p].thoughtCount = 1]_vars

\* C25: view_session of a session identifier that has no session record
\* returns an error, not a thought list.
C25_ViewMissing ==
  [][\A p \in Procs :
       (StepsFrom(p, "view_load") /\ ~HasRecord(loc[p].session))
         => resp'[p].kind = "error"]_vars

\* C26: view_session without a sessionId returns, when a default pointer is
\* set, the whole list of the default session with its length as count and
\* usingDefaultSession true; when none is set, the error "No session ID
\* provided and no default session set" at once; no step of it changes a
\* session record or the default pointer.
C26_ViewDefault ==
  [][\A p \in Procs :
       /\ (pc[p] \in {"view_getDefault", "view_load"} \/ pc'[p] \in {"view_getDefault", "view_load"})
            => files' = files /\ defaultFile' = defaultFile
       /\ StepsFrom(p, "view_getDefault") =>
            IF defaultFile = Null
            THEN /\ pc'[p] = "done"
                 /\ resp'[p] = ErrorResponse("No session ID provided and no default session set")
            ELSE /\ pc'[p] = "view_load"
                 /\ loc'[p].session = defaultFile
                 /\ loc'[p].usedDefaultSession
       /\ (StepsFrom(p, "view_load") /\ loc[p].usedDefaultSession) =>
            /\ pc'[p] = "done"
            /\ resp'[p].kind = "view_session"
            /\ resp'[p].sessionId = defaultFile
            /\ resp'[p].thoughts = files[defaultFile].thoughts
            /\ resp'[p].count = Len(files[defaultFile].thoughts)
            /\ resp'[p].usingDefaultSession]_vars

C26_Witness ==
  \E p \in Procs :
    /\ pc[p] = "done"
    /\ resp[p].kind = "view_session"
    /\ resp[p].usingDefaultSession
    /\ resp[p].count = 2
    /\ resp[p].thoughts = files[defaultFile].thoughts

\* C27: list_sessions returns one summary for each session record and none
\* else; a summary holds the number of the session's thoughts and the
\* timestamps of its first and its last thought; count is the number of
\* summaries; defaultSessionId is the default pointer and isDefault is true
\* of the summary of that session alone; no record is changed.
C27_ListSummaries ==
  [][\A p \in Procs :
       StepsFrom(p, "list_summaries") =>
         /\ pc'[p] = "done"
         /\ resp'[p].kind = "list_sessions"
         /\ files' = files /\ defaultFile' = defaultFile
         /\ DOMAIN resp'[p].sessions = {s \in SessionIds : files[s].exists}
         /\ resp'[p].count = Cardinality(DOMAIN resp'[p].sessions)
         /\ resp'[p].defaultSessionId = defaultFile
         /\ \A s \in DOMAIN resp'[p].sessions :
              LET summary == resp'[p].sessions[s]
                  thoughts == files[s].thoughts
              IN /\ summary.sessionId = s
                 /\ summary.thoughtCount = Len(thoughts)
                 /\ Len(thoughts) > 0
                 /\ summary.firstThought = thoughts[1].timestamp
                 /\ summary.lastThought = thoughts[Len(thoughts)].timestamp
                 /\ summary.isDefault <=> s = resp'[p].defaultSessionId
         /\ Cardinality({s \in DOMAIN resp'[p].sessions : resp'[p].sessions[s].isDefault})
              <= 1]_vars

C27_Witness ==
  \E p \in Procs :
    /\ pc[p] = "done"
    /\ resp[p].kind = "list_sessions"
    /\ \E s \in DOMAIN resp[p].sessions :
         /\ resp[p].sessions[s].isDefault
         /\ resp[p].sessions[s].thoughtCount = 2
         /\ resp[p].sessions[s].firstThought < resp[p].sessions[s].lastThought

\* C28: no request ends in a thrown exception: every handler returns a
\* result record, an error variant of it on failure.
C28_NothingThrown ==
  \A p \in Procs : resp[p].kind # "thrown"

\* The list is a builds_on chain: its thoughts have distinct identifiers,
\* the first has no relationship and every other builds on the one before.
IsBuildsOnChain(thoughts) ==
  /\ \A i, j \in 1 .. Len(thoughts) : thoughts[i].id = thoughts[j].id => i = j
  /\ \A i \in 1 .. Len(thoughts) :
       IF i = 1
       THEN thoughts[i].relates_to = Null /\ thoughts[i].relationship_type = NoStr
       ELSE /\ thoughts[i].relates_to = thoughts[i - 1].id
            /\ thoughts[i].relationship_type = "builds_on"

\* The entries the chain shows of a builds_on chain of n thoughts walked
\* from its newest thought: the last maxChainLength, oldest first.
VisibleOf(thoughts) ==
  LET n == Len(thoughts)
      m == IF n > maxChainLength THEN maxChainLength ELSE n
  IN [j \in 1 .. m |-> thoughts[n - m + j]]

\* C29: of a builds_on chain of n thoughts, n up to 20, walked from its
\* newest thought, buildReasoningChain returns total_length n; for n up to
\* 7 all n entries, oldest first, and truncated false; beyond 7 the 7
\* entries nearest the start, oldest first, truncated true, and the first
\* entry shown marked truncated with the count n - 7 of the entries left out.
C29_ChainTruncation ==
  \A p \in Procs :
    LET thoughts == files[ChainSession].thoughts
        n == Len(thoughts)
    IN (/\ pc[p] = "done" /\ resp[p].kind = "chain"
        /\ IsBuildsOnChain(thoughts) /\ n >= 1 /\ n <= ChainWalkCap
        /\ resp[p].thoughtId = thoughts[n].id) =>
         LET r == resp[p].chain
             shown == VisibleOf(thoughts)
         IN /\ r.total_length = n
            /\ r.truncated = (n > maxChainLength)
            /\ Len(r.chain) = Len(shown)
            /\ \A j \in 1 .. Len(shown) :
                 /\ r.chain[j].id = shown[j].id
                 /\ r.chain[j].content_preview = shown[j].content
                 /\ r.chain[j].mode = shown[j].mode
                 /\ r.chain[j].timestamp = shown[j].timestamp
                 /\ r.chain[j].relationship_type = shown[j].relationship_type
                 /\ IF j = 1 /\ n > maxChainLength
                    THEN /\ "truncated" \in DOMAIN r.chain[j]
                         /\ r.chain[j].truncated
                         /\ r.chain[j].note = n - maxChainLength
                    ELSE "truncated" \notin DOMAIN r.chain[j]

C29_Witness ==
  \E p \in Procs :
    /\ pc[p] = "done" /\ resp[p].kind = "chain"
    /\ IsBuildsOnChain(files[ChainSession].thoughts)
    /\ Len(files[ChainSession].thoughts) = ChainWalkCap
    /\ resp[p].thoughtId = ChainId(ChainWalkCap)
    /\ resp[p].chain.truncated
    /\ resp[p].chain.chain[1].note = ChainWalkCap - maxChainLength

\* The identifiers of the thoughts of a list.
IdsOf(thoughts) == {thoughts[i].id : i \in 1 .. Len(thoughts)}

\* C30: buildReasoningChain returns on every list and from every start,
\* also when the relates_to links run in a cycle; it takes no thought twice
\* and at most 20 thoughts: total_length is at most 20 and at most the
\* number of the list's identifiers, and the entries shown have distinct
\* identifiers.
C30_ChainBounded ==
  \A p \in Procs :
    (pc[p] = "done" /\ resp[p].kind = "chain") =>
      LET r == resp[p].chain
      IN /\ r.total_length <= ChainWalkCap
         /\ r.total_length <= Cardinality(IdsOf(files[ChainSession].thoughts))
         /\ Len(r.chain) <= maxChainLength
         /\ Len(r.chain) <= r.total_length
         /\ \A i, j \in 1 .. Len(r.chain) : r.chain[i].id = r.chain[j].id => i = j

C30_Witness ==
  \E p \in Procs :
    LET thoughts == files[ChainSession].thoughts
    IN /\ pc[p] = "done" /\ resp[p].kind = "chain"
       /\ Len(thoughts) = 2
       /\ thoughts[1].relates_to = thoughts[2].id
       /\ thoughts[2].relates_to = thoughts[1].id
       /\ thoughts[1].relationship_type = "builds_on"
       /\ thoughts[2].relationship_type = "builds_on"
       /\ resp[p].thoughtId = thoughts[1].id
       /\ resp[p].chain.total_length = 2

\* The thought of the list that a chain entry shows.
ShownBy(thoughts, entry) == thoughts[FindIndex(thoughts, entry.id)]

\* C31: the chain buildReasoningChain returns from a start that is not in
\* the list is empty; from a start in the list its last entry is the start
\* thought, each entry after another is a thought that builds on the other,
\* and a chain that is neither cut to maxChainLength nor ended by the cap
\* begins with the thought at which the walk stops: one that does not build
\* on a thought, or builds on one that is not in the list or is in the
\* chain already.
C31_BackwardPath ==
  \A p \in Procs :
    (pc[p] = "done" /\ resp[p].kind = "chain") =>
      LET thoughts == files[ChainSession].thoughts
          r == resp[p].chain
          n == Len(r.chain)
      IN IF FindIndex(thoughts, resp[p].thoughtId) = 0
         THEN r.chain = <<>> /\ r.total_length = 0 /\ ~r.truncated
         ELSE /\ n >= 1
              /\ r.chain[n].id = resp[p].thoughtId
              /\ \A j \in 1 .. n : FindIndex(thoughts, r.chain[j].id) # 0
              /\ \A j \in 2 .. n :
                   /\ ShownBy(thoughts, r.chain[j]).relationship_type = "builds_on"
                   /\ ShownBy(thoughts, r.chain[j]).relates_to = r.chain[j - 1].id
              /\ (~r.truncated /\ r.total_length < ChainWalkCap) =>
                   LET first == ShownBy(thoughts, r.chain[1])
                   IN \/ first.relationship_type # "builds_on"
                      \/ first.relates_to = Null
                      \/ FindIndex(thoughts, first.relates_to) = 0
                      \/ \E j \in 1 .. n : r.chain[j].id = first.relates_to

C31_Witness ==
  \E p \in Procs :
    LET thoughts == files[ChainSession].thoughts
    IN /\ pc[p] = "done" /\ resp[p].kind = "chain"
       /\ Len(thoughts) = 5
       /\ thoughts[3].relationship_type = "supports"
       /\ resp[p].thoughtId = thoughts[5].id
       /\ resp[p].chain.total_length = 3
       /\ resp[p].chain.chain[1].id = thoughts[3].id

\* The step in which a think returns its result.
ThinkAnswers(p) ==
  /\ pc[p] \in {"think_save", "think_setDefault"}
  /\ pc'[p] = "done"
  /\ resp'[p].kind = "think"

\* The thoughts of a list with an outgoing relationship of the type to the
\* thought.
Relating(thoughts, thoughtId, type) ==
  {i \in 1 .. Len(thoughts) :
     \E k \in 1 .. Len(thoughts[i].relationships_out) :
       thoughts[i].relationships_out[k] = [thought_id |-> thoughtId,
                                           relationship_type |-> type]}

\* Previews, each of a thought of the list that is among those with the
\* positions given.
PreviewsOf(previews, thoughts, positions) ==
  /\ Len(previews) <= 3
  /\ Len(previews) <= Cardinality(positions)
  /\ \A k \in 1 .. Len(previews) :
       \E i \in positions : previews[k] = substring(thoughts[i].content, 80) \o Ellipsis

\* C32: a think that succeeds with relates_to and the relationship_type
\* builds_on returns a reasoning_chain whose last entry is the referenced
\* thought, whose entries each build on the entry before and are thoughts
\* stored before the new one, together with at most 3 conflicts, each of a
\* thought of the session with an outgoing 'contradicts' relationship to the
\* referenced thought, and at most 3 supports, each of a thought with an
\* outgoing 'supports' relationship to it; every other successful think
\* returns a null reasoning_chain and no conflicts or supports.
C32_DerivedContext ==
  [][\A p \in Procs :
       ThinkAnswers(p) =>
         LET r == req[p]
             out == resp'[p]
             thoughts == files'[out.sessionId].thoughts
         IN IF Given(r.relates_to) /\ r.relationship_type = "builds_on"
            THEN LET c == out.reasoning_chain
                     n == Len(c.chain)
                 IN /\ c # NullRecord
                    /\ n >= 1
                    /\ c.chain[n].id = r.relates_to
                    /\ \A j \in 1 .. n :
                         /\ FindIndex(thoughts, c.chain[j].id) \in 1 .. Len(thoughts) - 1
                         /\ j > 1 =>
                              /\ ShownBy(thoughts, c.chain[j]).relationship_type = "builds_on"
                              /\ ShownBy(thoughts, c.chain[j]).relates_to = c.chain[j - 1].id
                    /\ out.related_context.type = "builds_on_enhanced"
                    /\ PreviewsOf(out.related_context.conflicts, thoughts,
                                  Relating(thoughts, r.relates_to, "contradicts"))
                    /\ PreviewsOf(out.related_context.supports, thoughts,
                                  Relating(thoughts, r.relates_to, "supports"))
            ELSE /\ out.reasoning_chain = NullRecord
                 /\ \/ out.related_context = NullRecord
                    \/ out.related_context.type = "related"]_vars

\* A think that builds on the first thought of a session in which four
\* thoughts contradict that thought has returned three conflicts and a
\* chain of one entry; another has returned a chain of two.
C32_Witness ==
  \E p \in Procs :
    /\ pc[p] = "done" /\ resp[p].kind = "think"
    /\ resp[p].sessionId = ChainSession
    /\ resp[p].reasoning_chain # NullRecord
    /\ Len(resp[p].reasoning_chain.chain) = 1
    /\ Len(resp[p].related_context.conflicts) = 3
    /\ Cardinality(Relating(files[ChainSession].thoughts, ThoughtIdOf(0, "j"),
                            "contradicts")) = 4

\* A find_thought_relationships request has returned the results of a search.
Searched(p) ==
  /\ pc[p] = "done"
  /\ resp[p].kind = "find_thought_relationships"
  /\ flt[p].asked # Null

\* Two characters that are the same letter, in whatever case.
SameLetter(c, d) ==
  \/ c = d
  \/ {c, d} \in {{"a", "A"}, {"b", "B"}, {"t", "T"}}

\* The query is a substring of the text, the case of letters left aside.
Matches(text, query) ==
  \E off \in 0 .. (Len(text) - Len(query)) :
    \A i \in 1 .. Len(query) : SameLetter(text[off + i], query[i])

\* The thought passes the two filters and the query matches its content,
\* one of its tags or its mode.
Qualifies(t, a) ==
  /\ a.exclude_thought_id # Null => t.id # a.exclude_thought_id
  /\ (a.relationship_types # Null /\ a.relationship_types # <<>>) =>
       /\ t.relationship_type # NoStr
       /\ \E i \in 1 .. Len(a.relationship_types) :
            a.relationship_types[i] = t.relationship_type
  /\ \/ Matches(t.content, a.query)
     \/ \E i \in 1 .. Len(t.tags) : Matches(t.tags[i], a.query)
     \/ Matches(ModeText(t.mode), a.query)

Least(m, n) == IF m < n THEN m ELSE n

\* C33: the results of find_thought_relationships never hold the thought
\* with the id exclude_thought_id; with a non-empty relationship_types they
\* hold only thoughts whose relationship_type is set and in it; every
\* result is a thought of the session that passes these filters and that
\* the query matches, no thought is returned twice, and the results are as
\* many as such thoughts, or limit if they are more.
C33_SearchFilter ==
  \A p \in Procs :
    Searched(p) =>
      LET a == flt[p].asked
          results == resp[p].results
          thoughts == IF "sessionId" \in DOMAIN resp[p]
                      THEN files[resp[p].sessionId].thoughts ELSE <<>>
          qualifying == {i \in 1 .. Len(thoughts) : Qualifies(thoughts[i], a)}
      IN /\ \A k \in 1 .. Len(results) :
              /\ a.exclude_thought_id # Null => results[k].id # a.exclude_thought_id
              /\ (a.relationship_types # Null /\ a.relationship_types # <<>>) =>
                   /\ results[k].relationship_type # NoStr
                   /\ \E i \in 1 .. Len(a.relationship_types) :
                        a.relationship_types[i] = results[k].relationship_type
              /\ \E i \in qualifying : thoughts[i].id = results[k].id
              /\ \A m \in 1 .. Len(results) : results[m].id = results[k].id => m = k
         /\ Len(results) = Least(Cardinality(qualifying), a.limit)

\* A search for "b" in a session of three thoughts has returned the thought
\* with the tag "B" and left out the first thought, which the query matches
\* and which it was asked to exclude, and a thought that the query does not
\* match.
C33_Witness ==
  \E p \in Procs :
    /\ Searched(p)
    /\ flt[p].asked.query = <<"b">>
    /\ flt[p].asked.exclude_thought_id = ThoughtIdOf(0, "j")
    /\ flt[p].asked.limit = DefaultLimit
    /\ "searched_thoughts" \in DOMAIN resp[p]
    /\ resp[p].searched_thoughts = 3
    /\ Len(resp[p].results) = 1
    /\ resp[p].results[1].tags = << <<"B">> >>
    /\ Matches(files[resp[p].sessionId].thoughts[1].content, <<"b">>)

\* The words of a query: its longest stretches without white space, each
\* by its first and last position.
WordsOf(query) ==
  {w \in (1 .. Len(query)) \X (1 .. Len(query)) :
     /\ w[1] <= w[2]
     /\ \A k \in w[1] .. w[2] : query[k] # " "
     /\ w[1] = 1 \/ query[w[1] - 1] = " "
     /\ w[2] = Len(query) \/ query[w[2] + 1] = " "}

\* The score the thought is to have for the query.
ScoreOf(t, query) ==
  (IF Matches(t.content, query) THEN 10 ELSE 0)
  + 2 * Cardinality({w \in WordsOf(query) :
                       Matches(t.content, SubSeq(query, w[1], w[2]))})
  + 5 * Cardinality({i \in 1 .. Len(t.tags) : Matches(t.tags[i], query)})
  + (IF Matches(ModeText(t.mode), query) THEN 3 ELSE 0)
  + (IF t.relates_to # Null \/ t.relationship_type # NoStr THEN 1 ELSE 0)

Scored(p) == pc[p] = "done" /\ resp[p].kind = "score"

\* C34: the relevance score of a thought for a query is 10 if the content
\* contains the query, plus 2 for every word of the query found in the
\* content, plus 5 for every tag that contains the query, plus 3 if the
\* mode contains it, plus 1 if the thought has a relationship, all with the
\* case of letters left aside.
C34_RelevanceScore ==
  \A p \in Procs :
    Scored(p) => resp[p].score = ScoreOf(resp[p].thought, resp[p].query)

\* The same for the queries that neither begin nor end with white space and
\* are not empty.
C34_ScoreOfTrimmedQueries ==
  \A p \in Procs :
    (Scored(p) /\ resp[p].query # <<>> /\ Head(resp[p].query) # " "
       /\ resp[p].query[Len(resp[p].query)] # " ")
      => resp[p].score = ScoreOf(resp[p].thought, resp[p].query)

\* The step in which a find_thought_relationships request returns the
\* results of a search.
SearchAnswers(p) ==
  /\ pc[p] = "find_load"
  /\ pc'[p] = "done"
  /\ resp'[p].kind = "find_thought_relationships"

\* The results are in the order of descending score, those of equal score
\* in the order of their thoughts in the list; they are at most limit, no
\* thought left out for the limit ranks before one that is returned, and
\* total is their number.
Ranked(out, a, thoughts) ==
  LET results == out.results
      at(k) == FindIndex(thoughts, results[k].id)
      returned == {at(k) : k \in 1 .. Len(results)}
  IN /\ \A k, m \in 1 .. Len(results) :
          k < m =>
            /\ results[k].relevance_score >= results[m].relevance_score
            /\ results[k].relevance_score = results[m].relevance_score => at(k) < at(m)
     /\ Len(results) <= a.limit
     /\ \A i \in 1 .. Len(thoughts) :
          (Qualifies(thoughts[i], a) /\ i \notin returned) =>
            /\ Len(results) = a.limit
            /\ \A k \in 1 .. Len(results) :
                 LET score == calculateRelevanceScore(thoughts[i], toLowerCase(a.query))
                 IN \/ score < results[k].relevance_score
                    \/ score = results[k].relevance_score /\ at(k) < i
     /\ out.total = Len(results)

Persisted(p) ==
  /\ HasRecord(loc[p].session)
  /\ \E i \in 1 .. Len(files[loc[p].session].thoughts) :
       files[loc[p].session].thoughts[i].id = loc[p].thoughtId

\* C36: a think writes the session record and the default pointer in two
\* steps, the record first: the step that writes the record leaves the
\* pointer as it is, the pointer is written only by a think that has
\* written its record, and when it is written the record of the session it
\* then names exists and holds the new thought.
C36_SaveBeforeSetDefault ==
  [][\A p \in Procs :
       /\ StepsFrom(p, "think_save") => defaultFile' = defaultFile
       /\ (Thinking(p) /\ pc'[p] = "think_setDefault" /\ pc[p] # pc'[p]) =>
            pc[p] = "think_save" /\ defaultFile' = defaultFile
       /\ (Thinking(p) /\ defaultFile' # defaultFile) =>
            /\ pc[p] = "think_setDefault"
            /\ Persisted(p)
            /\ files' = files
            /\ defaultFile' = loc[p].session
            /\ HasRecord(defaultFile')]_vars

\* The state between the two writes: the new thought is in the record of
\* its session and the default pointer still names another session.
C36_Witness ==
  \E p \in Procs :
    /\ pc[p] = "think_setDefault"
    /\ Persisted(p)
    /\ files[loc[p].session].thoughts[Len(files[loc[p].session].thoughts)].id
         = loc[p].thoughtId
    /\ defaultFile # Null
    /\ defaultFile # loc[p].session
    /\ HasRecord(defaultFile)

\* No request is under way.
Quiet == \A p \in Procs : pc[p] = "idle"

\* C37: when the requests are run one after the other and the storage does
\* not fail, then after every request the default pointer is absent or
\* names a session that has a record.
C37_PointerNamesRecord ==
  Quiet => (defaultFile = Null \/ HasRecord(defaultFile))

\* C38: once a delete_session and an overlapping set_default_session or
\* think have both completed, the default pointer does not name a session
\* whose record is deleted.
C38_NoDanglingPointer ==
  Quiet => (defaultFile = Null \/ files[defaultFile].exists)

\* C39: in every session record, a thought with relates_to set references a
\* thought at an earlier position of the list, and of no chain built from a
\* thought of the record is the first entry a thought that builds on a
\* thought of the chain: the walk never stops at a thought seen before.
C39_ReferencesEarlier ==
  \A s \in SessionIds :
    LET thoughts == files[s].thoughts
    IN \A i \in 1 .. Len(thoughts) :
         /\ thoughts[i].relates_to # Null =>
              FindIndex(thoughts, thoughts[i].relates_to) \in 1 .. (i - 1)
         /\ LET c == buildReasoningChain(thoughts[i].id, thoughts).chain
                first == ShownBy(thoughts, c[1])
            IN /\ c # <<>>
               /\ ~(/\ first.relationship_type = "builds_on"
                    /\ first.relates_to # Null
                    /\ \E j \in 1 .. Len(c) : c[j].id = first.relates_to)

\* A session of three thoughts, the third building on the second and the
\* second on the first.
C39_Witness ==
  \E s \in SessionIds :
    LET thoughts == files[s].thoughts
    IN /\ Len(thoughts) = 3
       /\ thoughts[2].relationship_type = "builds_on"
       /\ thoughts[2].relates_to = thoughts[1].id
       /\ thoughts[3].relationship_type = "builds_on"
       /\ thoughts[3].relates_to = thoughts[2].id
       /\ Len(buildReasoningChain(thoughts[3].id, thoughts).chain) = 3

\* The request gives one of relates_to and relationship_type without the
\* other.
GivesHalf(r) == (r.relates_to # Null) # (r.relationship_type # NoStr)

\* The thought has no relationship.
Unrelated(t) ==
  t.relates_to = Null /\ t.relationship_type = NoStr /\ t.relationships_out = <<>>

\* C40: every persisted thought has relates_to and relationship_type both
\* set, and then relationships_out holds the one entry made of them, or
\* both unset, and then relationships_out is empty. A think that gives one
\* of the two without the other is not rejected by the relationship
\* validation; it appends a thought without a relationship and leaves every
\* other thought of the session as it was.
C40_RelationshipFields ==
  /\ \A s \in SessionIds :
       \A i \in 1 .. Len(files[s].thoughts) :
         LET t == files[s].thoughts[i]
         IN IF t.relates_to # Null \/ t.relationship_type # NoStr
            THEN /\ t.relates_to # Null /\ t.relationship_type # NoStr
                 /\ t.relationships_out = << [thought_id |-> t.relates_to,
                                              relationship_type |-> t.relationship_type] >>
            ELSE t.relationships_out = <<>>
  /\ \A p \in Procs :
       /\ (pc[p] = "done" /\ resp[p].kind = "error"
             /\ resp[p].error \in {"Cannot reference self", "Referenced thought not found",
                                   "Cannot reference future thoughts"})
            => flt[p].ref # "none"
       /\ (pc[p] \in {"think_save", "think_setDefault"} /\ GivesHalf(req[p])) =>
            LET before == files[loc[p].session].thoughts
                n == Len(loc[p].thoughts)
            IN /\ flt[p].ref = "none"
               /\ Unrelated(loc[p].thoughts[n])
               /\ loc[p].thoughts[n].id = loc[p].thoughtId
               /\ pc[p] = "think_save" => loc[p].thoughts = Append(before, loc[p].thoughts[n])
               /\ pc[p] = "think_setDefault" => before = loc[p].thoughts

\* A think that gave relates_to alone, the id of the first thought of its
\* session, has written its thought; neither thought has a relationship.
C40_Witness ==
  \E p \in Procs :
    /\ pc[p] = "think_setDefault"
    /\ req[p].relates_to # Null /\ req[p].relationship_type = NoStr
    /\ LET thoughts == files[loc[p].session].thoughts
       IN /\ Len(thoughts) = 2
          /\ thoughts[1].id = req[p].relates_to
          /\ thoughts[1].relationships_in = <<>>
          /\ thoughts[2].id = loc[p].thoughtId
          /\ Unrelated(thoughts[2])

====
